---- MODULE Spec2Model ----
(***************************************************************************)
(* Request dispatch pipeline of bun-web-core.                              *)
(*                                                                         *)
(* Part 1 (Spec): the per-request handler closure built by                 *)
(* Application.findMatchingRoute (src/application/application.ts 223-334): *)
(* guard stage, parameter/pipe stage, handler invocation, response         *)
(* shaping, and exception filter dispatch.                                 *)
(*                                                                         *)
(* Part 2 (SpecInterceptor): InterceptorExecutor.execute                   *)
(* (src/examples/wildcard-routes-example.ts 289-350) with the observable   *)
(* transport it is built on.                                               *)
(*                                                                         *)
(* Parts 3 to 7: the container (SpecContainer, SpecResolve), route         *)
(* matching and dispatch (SpecMatch, SpecCombine, SpecDispatch), the guard *)
(* executor (SpecGuard) and parameter resolution (SpecParams); each part   *)
(* names its source where it begins.                                       *)
(*                                                                         *)
(* Parts 8 to 12: the global component lists (SpecGlobals), the middleware *)
(* chain (SpecMiddleware), CallHandler.handle (SpecHandle), concurrent     *)
(* requests (SpecRequests) and the application's tables (SpecApp).         *)
(*                                                                         *)
(* Message texts that are Chinese in the source are rendered by ASCII      *)
(* tokens; the original text is quoted next to each.                       *)
(***************************************************************************)
EXTENDS Integers, Sequences, FiniteSets, TLC

(***************************************************************************)
(* Bounds of the model                                                     *)
(***************************************************************************)
MaxGuards == 2
MaxPipes == 2
MaxFilters == 2
MaxParams == 2
MaxInterceptors == 3
MaxInstances == 3
MaxRegistered == 1
MaxSegments == 3
MaxPartLen == 3
MaxRoutes == 2
MaxEmissions == 2
MaxArity == 3
MaxDeps == 2
MaxDepth == 5
MaxReentries == 1
MaxGlobals == 2
MaxMiddlewares == 3
MaxHandleCalls == 2
MaxRequests == 2
MaxHandled == 2

VARIABLES
    meta,       \* decorator metadata of the matched route + global lists
    pc,         \* position of the request's async handler closure
    guards,     \* application.ts:234  guards = [...globalGuards, ...localGuards]
    gi,         \* GuardExecutor.canActivate: index of the guard being run
    pk,         \* ParamResolver.resolveParams: index of the parameter being resolved
    allPipes,   \* guard.decorator.ts:467  pipes of the parameter being resolved
    pi,         \* PipeResolver.executePipes: index of the pipe being run
    value,      \* PipeResolver.executePipes: transformedValue
    args,       \* ParamResolver.resolveParams: resolvedParams
    err,        \* the value caught at application.ts:310
    filters,    \* application.ts:322  filters = [...globalFilters, ...localFilters]
    fi,         \* ExceptionFilterExecutor.execute: index of the filter being tried
    lastOut,    \* what the filter tried last returned
    response,   \* what the closure returned to its caller
    log,        \* observable side effects, in the order they happened
    ic,         \* state of one run of InterceptorExecutor.execute (part 2)
    services,   \* container.ts:8  Container.services: token -> constructor
    singletons, \* container.ts:9  Container.singletons: token -> instance
    nextId,     \* identity of the next object created by `new`
    lastOp,     \* the last call made on the container and what it returned
    routePath,  \* application.ts:346  argument of matchRoute
    requestPath,\* application.ts:347  argument of matchRoute
    matchResult,\* what matchRoute returned
    routes,     \* application.ts:72  Application.routes, in registration order
    options,    \* application.ts:73  Application.options (and swaggerSetup)
    request,    \* the Request given to the fetch callback
    fetched,    \* what the fetch callback did with it
    pathParts,  \* application.ts:199  arguments of combinePaths
    fullPath,   \* what combinePaths returned
    gx,         \* one guard taken through GuardExecutor.canActivate (part 5)
    pr,         \* one run of ParamResolver.resolveParams by position (part 6)
    rc,         \* call stack of Container.resolve, frame by frame (part 7)
    gl,         \* the global guard / pipe / interceptor lists (part 8)
    mw,         \* one run of a MiddlewareExecutor chain (part 9)
    hc,         \* the calls of handle() in one run of execute (part 10)
    rq,         \* the requests in flight in the fetch callback (part 11)
    app         \* routes, registrations and global lists of one Application

xvars == <<gx, pr, rc>>
yvars == <<gl, mw, hc, rq, app>>
qvars == <<meta, pc, guards, gi, pk, allPipes, pi, value, args, err,
           filters, fi, lastOut, response, log>>
pvars == <<qvars, xvars, yvars>>
cvars == <<services, singletons, nextId, lastOp>>
rvars == <<routePath, requestPath, matchResult, routes, options, request,
           fetched, pathParts, fullPath>>
vars == <<meta, pc, guards, gi, pk, allPipes, pi, value, args, err,
          filters, fi, lastOut, response, log, ic, cvars, rvars, xvars, yvars>>

(***************************************************************************)
(* The container while no call has been made on it                         *)
(***************************************************************************)
\* String tokens given to register and resolve: the names of two of the
\* classes defined further down, and one more name.
Tokens == {"S", "T", "x"}

\* Keys of the singleton cache: string tokens and class names.
Names == Tokens \cup {"D", "U"}

NoClass == "undefined"      \* Map.get of a missing key
NoInstance == [kind |-> "none", id |-> 0, cls |-> "none", args |-> <<>>]
NoOp == [op |-> "none", token |-> [kind |-> "none", name |-> ""],
         cls |-> NoClass, res |-> NoInstance, prev |-> NoInstance]

\* container.ts:8-9  new Map() twice
EmptyContainer ==
    /\ services = [t \in Tokens |-> NoClass]
    /\ singletons = [t \in Names |-> NoInstance]
    /\ nextId = 1
    /\ lastOp = NoOp

(***************************************************************************)
(* Routing while no route is registered and no call has been made          *)
(***************************************************************************)
NotCalled == [called |-> FALSE]

IdleRouting ==
    /\ routePath = <<>> /\ requestPath = <<>> /\ matchResult = NotCalled
    /\ routes = <<>>
    /\ options = [cors |-> TRUE, swagger |-> FALSE, staticDir |-> <<>>]
    /\ request = [method |-> "none", path |-> <<>>]
    /\ fetched = NotCalled
    /\ pathParts = <<>> /\ fullPath = NotCalled

(***************************************************************************)
(* The parts that follow one call step by step, while no call is running   *)
(***************************************************************************)
NoRun == [phase |-> "idle"]

NoCalls ==
    gl = NoRun /\ mw = NoRun /\ hc = NoRun /\ rq = NoRun /\ app = NoRun

NoRuns == gx = NoRun /\ pr = NoRun /\ rc = NoRun /\ NoCalls

(***************************************************************************)
(* Helpers                                                                 *)
(***************************************************************************)
BSeq(S, n) == UNION {[1..k -> S] : k \in 0..n}

Range(s) == {s[i] : i \in 1..Len(s)}

\* A descriptor list of one scope, each entry tagged with its scope and its
\* position in the registration (decorator) order.
Tag(scope, defs) ==
    [i \in 1..Len(defs) |-> [scope |-> scope, idx |-> i, kind |-> defs[i]]]

Instantiable(d) == d.kind # "ctorThrows"

\* One entry of the log: what was called (ev), on which descriptor (scope,
\* idx) and, for guards and pipes, how the call ended (out).
Event(ev, scope, idx, out) ==
    [ev |-> ev, scope |-> scope, idx |-> idx, out |-> out]

EventsOf(ev) == SelectSeq(log, LAMBDA e : e.ev = ev)

(***************************************************************************)
(* Thrown values and responses                                             *)
(***************************************************************************)
NoErr == [cls |-> "none", status |-> 0, message |-> ""]

\* unnamed/part_004:156-164  class HttpException extends Error
HttpException(message, status) ==
    [cls |-> "HttpException", status |-> status, message |-> message]

JsError(message) == [cls |-> "Error", status |-> 0, message |-> message]

\* Values user code (guard, pipe, handler) can throw: HttpExceptions, plain
\* Errors (with and without message), an object that merely looks like an
\* HttpException, a string and null.
ThrownValues ==
    { HttpException("bad request", 400), HttpException("", 404),
      JsError("boom"), JsError(""),
      [cls |-> "Object", status |-> 404, message |-> "nf"],
      [cls |-> "String", status |-> 0, message |-> ""],
      [cls |-> "Null", status |-> 0, message |-> ""] }

IsError(e) == e.cls \in {"HttpException", "Error"}      \* instanceof Error

NoResponse ==
    [kind |-> "none", status |-> 0, ctype |-> "", message |-> "",
     by |-> "none", idx |-> 0]

\* new Response(body, {status, headers}).  `by` names the producer: "guard",
\* "handler", "default", "fallback", or the scope of the filter that built it
\* (then idx is the filter's position in its scope).
Resp(status, ctype, message, by, idx) ==
    [kind |-> "Response", status |-> status, ctype |-> ctype,
     message |-> message, by |-> by, idx |-> idx]

(***************************************************************************)
(* Guard stage                                                             *)
(***************************************************************************)
GuardKinds == {"class", "ctorThrows"}

LocalGuardDefs_MethodFirst(controllerGuards, methodGuards) ==
    methodGuards \o controllerGuards

\* guard.decorator.ts:64  allGuardClasses = [...controllerGuards, ...methodGuards]
LocalGuardDefs(controllerGuards, methodGuards) ==
    controllerGuards \o methodGuards

\* guard.decorator.ts:47-84  a guard class that can be built neither by the
\* container nor by `new` is logged and left out.
resolveGuards(m) ==
    SelectSeq(LocalGuardDefs(Tag("controller", m.ctrlGuards),
                             Tag("method", m.methodGuards)),
              Instantiable)

\* guard.decorator.ts:90-101  `new GuardClass()` in the catch clause is not
\* guarded: a constructor that throws makes getGlobalGuards throw.
getGlobalGuardsThrows(m) ==
    \E i \in 1..Len(m.globalGuards) : m.globalGuards[i] = "ctorThrows"

getGlobalGuards(m) == Tag("global", m.globalGuards)

AllGuards_LocalFirst(globalGuards, localGuards) == localGuards \o globalGuards

\* application.ts:234  guards = [...globalGuards, ...localGuards]
AllGuards(globalGuards, localGuards) == globalGuards \o localGuards

\* What one guard.canActivate(context) call can do.
GuardOutcomes ==
    {[ret |-> "truthy", thrown |-> NoErr], [ret |-> "falsy", thrown |-> NoErr]}
    \cup {[ret |-> "throws", thrown |-> v] : v \in ThrownValues}

\* unnamed/part_004:104  `else if (!result)` / the loop goes on otherwise
GuardAllows(out) == out.ret = "truthy"

\* unnamed/part_004:99-115  the GuardResult.error of a rejection.
\* "guard check failed" is the source's "守卫验证失败".
GuardError(out) ==
    IF out.ret = "falsy" THEN JsError("guard check failed")
    ELSE IF IsError(out.thrown) THEN out.thrown
    ELSE JsError("String(thrown)")

\* application.ts:248-272  "access denied" is the source's "访问被拒绝".
guardResponse(error) ==
    IF error.cls = "HttpException"          \* "status" in error && "message" in error
    THEN Resp(error.status, "application/json", error.message, "guard", 0)
    ELSE Resp(403, "application/json",
              IF error.message # "" THEN error.message ELSE "access denied",
              "guard", 0)

(***************************************************************************)
(* Parameter / pipe stage                                                  *)
(***************************************************************************)
PipeKinds == {"instance"}

\* What a marker-appending pipe adds to the value it is given.
Marker(scope, idx) == [scope |-> scope, idx |-> idx]

\* guard.decorator.ts:361-383  the value extracted for parameter k
RawValue(k) == <<Marker("input", k)>>

\* validation.pipe.ts:400-402  (the synchronous PipeResolver, the one whose
\* result ParamResolver spreads without awaiting it)
getGlobalPipes(m) == Tag("global", m.globalPipes)

\* validation.pipe.ts:411-421
resolvePipes(m) == Tag("method", m.methodPipes)

\* validation.pipe.ts:431-442
resolveParameterPipes(m, k) == Tag("param", m.params[k])

AllPipes_ParamBeforeMethod(globalPipes, methodPipes, parameterPipes) ==
    globalPipes \o parameterPipes \o methodPipes

\* guard.decorator.ts:467  allPipes = [...globalPipes, ...methodPipes, ...parameterPipes]
AllPipes(globalPipes, methodPipes, parameterPipes) ==
    globalPipes \o methodPipes \o parameterPipes

\* What one pipe.transform(value, metadata) call can do.
PipeOutcomes ==
    {[ret |-> "ok", thrown |-> NoErr]}
    \cup {[ret |-> "throws", thrown |-> v] : v \in ThrownValues}

(***************************************************************************)
(* Handler invocation and response shaping                                 *)
(***************************************************************************)
\* What the route handler can return: a plain object, a string, a Response,
\* a truthy primitive (a number, true) or a falsy value (undefined, null, 0).
HandlerResults == {"object", "string", "Response", "truthyPrimitive", "falsy"}

\* application.ts:289-309
shapeResponse(result) ==
    CASE result = "object" ->
           Resp(200, "application/json", "", "handler", 0)
      [] result = "string" ->
           Resp(200, "text/plain", "", "handler", 0)
      [] result = "Response" ->
           Resp(201, "", "", "handler", 0)
      [] result = "truthyPrimitive" ->      \* `return result || ...`: the raw value
           [kind |-> "Raw", status |-> 0, ctype |-> "", message |-> "",
            by |-> "handler", idx |-> 0]
      [] OTHER ->                           \* new Response("OK")
           Resp(200, "", "", "handler", 0)

(***************************************************************************)
(* Exception filter dispatch                                               *)
(***************************************************************************)
FilterKinds == {"class", "ctorThrows"}

\* unnamed/part_007:77  allFilterDefs = [...controllerFilters, ...methodFilters]
LocalFilterDefs(controllerFilters, methodFilters) ==
    controllerFilters \o methodFilters

\* unnamed/part_007:60-104  a filter that cannot be built is logged and left out
resolveFilters(m) ==
    SelectSeq(LocalFilterDefs(Tag("controller", m.ctrlFilters),
                              Tag("method", m.methodFilters)),
              Instantiable)

\* unnamed/part_007:110-125  `new filterDef()` in the catch clause is not
\* guarded: a constructor that throws makes getGlobalFilters throw.
getGlobalFiltersThrows(m) ==
    \E i \in 1..Len(m.globalFilters) : m.globalFilters[i] = "ctorThrows"

getGlobalFilters(m) == Tag("global", m.globalFilters)

\* application.ts:322  filters = [...globalFilters, ...localFilters]
AllFilters(globalFilters, localFilters) == globalFilters \o localFilters

\* What one filter.catch(exception, host) call can do: return a Response,
\* return nothing, return a value that is no Response (a plain object), throw.
FilterOutcomes == {"response", "nothing", "nonResponse", "throws"}

FilterProducesResponse_AnyTruthy(out) == out \in {"response", "nonResponse"}

\* unnamed/part_002:297  if (result && result instanceof Response) return result
FilterProducesResponse(out) == out = "response"

\* The Response a user filter builds from the exception, the way
\* ValidationExceptionFilter does (unnamed/part_002:57-72).
FilterResponse(e, f) ==
    Resp(IF e.status # 0 THEN e.status ELSE 500, "application/json",
         IF e.message # "" THEN e.message ELSE "Internal Server Error",
         f.scope, f.idx)

DefaultExceptionFilter_catch_DuckTyped(e) ==
    IF e.status # 0
    THEN Resp(e.status, "application/json", e.message, "default", 0)
    ELSE Resp(500, "application/json", "internal server error", "default", 0)

\* unnamed/part_002:206-244  "internal server error" is the source's
\* "内部服务器错误", "unknown error" its "未知错误".
DefaultExceptionFilter_catch(e) ==
    IF e.cls = "HttpException"                     \* instanceof HttpException
    THEN Resp(e.status, "application/json", e.message, "default", 0)
    ELSE IF e.cls # "Null" /\ e.message # ""       \* exception && exception.message
    THEN Resp(500, "application/json", "internal server error", "default", 0)
    ELSE Resp(500, "application/json", "unknown error", "default", 0)

\* unnamed/part_002:305-323  default filter, then the hard-coded 500 body
ExceptionFilterExecutor_fallback(e) ==
    LET result == DefaultExceptionFilter_catch(e)
    IN  IF result.kind = "Response" THEN result
        ELSE Resp(500, "application/json", "Internal Server Error", "fallback", 0)

(***************************************************************************)
(* The request handler closure, application.ts:223-334                     *)
(***************************************************************************)
Meta(gg, cg, mg, gp, mp, ps, gf, cf, mf, n) ==
    [globalGuards |-> gg, ctrlGuards |-> cg, methodGuards |-> mg,
     globalPipes |-> gp, methodPipes |-> mp, params |-> ps,
     globalFilters |-> gf, ctrlFilters |-> cf, methodFilters |-> mf,
     interceptors |-> n]

\* The decorator configurations explored: one of the three stages is given
\* every list up to its bound while the other two are kept small.
Metas ==
    { Meta(gg, cg, mg, <<"instance">>, <<>>, << <<>> >>, <<"class">>, <<>>, <<>>, 0) :
        gg \in BSeq(GuardKinds, MaxGuards), cg \in BSeq(GuardKinds, MaxGuards),
        mg \in BSeq(GuardKinds, MaxGuards) }
    \cup
    { Meta(<<"class">>, <<>>, <<>>, gp, mp, ps, <<"class">>, <<>>, <<>>, n) :
        gp \in BSeq(PipeKinds, MaxPipes), mp \in BSeq(PipeKinds, MaxPipes),
        ps \in BSeq(BSeq(PipeKinds, MaxPipes), MaxParams), n \in 0..1 }
    \cup
    { Meta(<<"class">>, <<>>, <<>>, <<"instance">>, <<>>, << <<>> >>, gf, cf, mf, 0) :
        gf \in BSeq(FilterKinds, MaxFilters), cf \in BSeq(FilterKinds, MaxFilters),
        mf \in BSeq(FilterKinds, MaxFilters) }

IcIdle == [phase |-> "idle"]

Init ==
    /\ meta \in Metas
    /\ pc = "start"
    /\ guards = <<>> /\ gi = 1
    /\ pk = 1 /\ allPipes = <<>> /\ pi = 1 /\ value = <<>> /\ args = <<>>
    /\ err = NoErr
    /\ filters = <<>> /\ fi = 1 /\ lastOut = "none"
    /\ response = NoResponse
    /\ log = <<>>
    /\ ic = IcIdle
    /\ EmptyContainer
    /\ IdleRouting
    /\ NoRuns

\* application.ts:225-245  resolve the local guards, then the global ones
ResolveGuards ==
    /\ pc = "start"
    /\ IF getGlobalGuardsThrows(meta)
       THEN /\ err' = JsError("constructor failed")
            /\ pc' = "catch"
            /\ UNCHANGED guards
       ELSE /\ guards' = AllGuards(getGlobalGuards(meta), resolveGuards(meta))
            /\ pc' = IF Len(guards') > 0 THEN "guards" ELSE "params"
            /\ UNCHANGED err
    /\ UNCHANGED <<meta, gi, pk, allPipes, pi, value, args, filters, fi,
                   lastOut, response, log, ic, cvars, rvars, xvars, yvars>>

\* unnamed/part_004:91-118, one iteration of the loop of
\* GuardExecutor.canActivate; on a rejection application.ts:248-272
GuardStep ==
    /\ pc = "guards"
    /\ gi <= Len(guards)
    /\ \E out \in GuardOutcomes :
         /\ log' = Append(log, Event("guard.canActivate", guards[gi].scope,
                                     guards[gi].idx, out.ret))
         /\ IF GuardAllows(out)
            THEN /\ gi' = gi + 1
                 /\ pc' = IF gi = Len(guards) THEN "params" ELSE "guards"
                 /\ UNCHANGED response
            ELSE /\ response' = guardResponse(GuardError(out))
                 /\ pc' = "done"
                 /\ UNCHANGED gi
    /\ UNCHANGED <<meta, guards, pk, allPipes, pi, value, args, err, filters,
                   fi, lastOut, ic, cvars, rvars, xvars, yvars>>

\* guard.decorator.ts:358-409 and 440-482: take the next declared parameter,
\* extract its value and collect its pipes; after the last one, go on to the
\* handler.
BeginParam ==
    /\ pc = "params"
    /\ IF pk > Len(meta.params)
       THEN /\ pc' = "handler"
            /\ UNCHANGED <<allPipes, pi, value, args, pk>>
       ELSE LET pipes == AllPipes(getGlobalPipes(meta), resolvePipes(meta),
                                  resolveParameterPipes(meta, pk))
            IN  /\ allPipes' = pipes
                /\ pi' = 1
                /\ value' = RawValue(pk)
                /\ IF Len(pipes) = 0      \* guard.decorator.ts:469 return value
                   THEN /\ args' = Append(args, RawValue(pk))
                        /\ pk' = pk + 1
                        /\ pc' = "params"
                   ELSE /\ pc' = "pipes"
                        /\ UNCHANGED <<args, pk>>
    /\ UNCHANGED <<meta, guards, gi, err, filters, fi, lastOut, response, log, ic, cvars, rvars, xvars, yvars>>

\* One entry of the log for a pipe.transform call: as Event, and the value
\* the call threw.
PipeEvent(scope, idx, out) ==
    [ev |-> "pipe.transform", scope |-> scope, idx |-> idx, out |-> out.ret,
     thrown |-> out.thrown]

\* validation.pipe.ts:485-488  catch (error) { console.error(..); throw error }
executePipes_catch(error) == error

\* validation.pipe.ts:483-490, one iteration of the loop of executePipes
PipeStep ==
    /\ pc = "pipes"
    /\ pi <= Len(allPipes)
    /\ \E out \in PipeOutcomes :
         /\ log' = Append(log, PipeEvent(allPipes[pi].scope,
                                         allPipes[pi].idx, out))
         /\ IF out.ret = "ok"
            THEN LET v == Append(value, Marker(allPipes[pi].scope, allPipes[pi].idx))
                 IN  /\ value' = v
                     /\ IF pi = Len(allPipes)
                        THEN /\ args' = Append(args, v)
                             /\ pk' = pk + 1
                             /\ pc' = "params"
                             /\ UNCHANGED pi
                        ELSE /\ pi' = pi + 1
                             /\ UNCHANGED <<args, pk, pc>>
                     /\ UNCHANGED err
            ELSE /\ err' = executePipes_catch(out.thrown)
                 /\ pc' = "catch"
                 /\ UNCHANGED <<value, args, pk, pi>>
    /\ UNCHANGED <<meta, guards, gi, allPipes, filters, fi, lastOut, response, ic, cvars, rvars, xvars, yvars>>

\* application.ts:284-287  the handler is called
InvokeHandler ==
    /\ pc = "handler"
    /\ log' = Append(log, Event("handler", "method", 0, "called"))
    /\ pc' = "awaitHandler"
    /\ UNCHANGED <<meta, guards, gi, pk, allPipes, pi, value, args, err,
                   filters, fi, lastOut, response, ic, cvars, rvars, xvars, yvars>>

\* application.ts:284-309  the handler's promise settles; response shaping
HandlerSettles ==
    /\ pc = "awaitHandler"
    /\ \/ \E r \in HandlerResults :
            /\ response' = shapeResponse(r)
            /\ pc' = "done"
            /\ UNCHANGED err
       \/ \E v \in ThrownValues :
            /\ err' = v
            /\ pc' = "catch"
            /\ UNCHANGED response
    /\ UNCHANGED <<meta, guards, gi, pk, allPipes, pi, value, args, filters,
                   fi, lastOut, log, ic, cvars, rvars, xvars, yvars>>

\* application.ts:310-325  the catch clause resolves the filters; when
\* getGlobalFilters throws, the exception leaves the closure
ResolveFilters ==
    /\ pc = "catch"
    /\ IF getGlobalFiltersThrows(meta)
       THEN /\ pc' = "escaped"
            /\ UNCHANGED filters
       ELSE /\ filters' = AllFilters(getGlobalFilters(meta), resolveFilters(meta))
            /\ pc' = "filters"
    /\ UNCHANGED <<meta, guards, gi, pk, allPipes, pi, value, args, err, fi,
                   lastOut, response, log, ic, cvars, rvars, xvars, yvars>>

\* unnamed/part_002:294-303, one iteration of the loop of
\* ExceptionFilterExecutor.execute
FilterStep ==
    /\ pc = "filters"
    /\ fi <= Len(filters)
    /\ \E out \in FilterOutcomes :
         /\ log' = Append(log, Event("filter.catch", filters[fi].scope,
                                     filters[fi].idx, "-"))
         /\ lastOut' = out
         /\ IF FilterProducesResponse(out)
            THEN /\ response' = FilterResponse(err, filters[fi])
                 /\ pc' = "done"
                 /\ UNCHANGED fi
            ELSE /\ fi' = fi + 1
                 /\ UNCHANGED <<response, pc>>
    /\ UNCHANGED <<meta, guards, gi, pk, allPipes, pi, value, args, err,
                   filters, ic, cvars, rvars, xvars, yvars>>

\* unnamed/part_002:305-323  no filter produced a response
DefaultFilter ==
    /\ pc = "filters"
    /\ fi > Len(filters)
    /\ log' = Append(log, Event("default.catch", "default", 0, "-"))
    /\ response' = ExceptionFilterExecutor_fallback(err)
    /\ pc' = "done"
    /\ UNCHANGED <<meta, guards, gi, pk, allPipes, pi, value, args, err,
                   filters, fi, lastOut, ic, cvars, rvars, xvars, yvars>>

Next ==
    \/ ResolveGuards
    \/ GuardStep
    \/ BeginParam
    \/ PipeStep
    \/ InvokeHandler
    \/ HandlerSettles
    \/ ResolveFilters
    \/ FilterStep
    \/ DefaultFilter

Spec == Init /\ [][Next]_vars

(***************************************************************************)
(* Properties of the request handler closure                               *)
(***************************************************************************)
GuardEvents == EventsOf("guard.canActivate")
PipeEvents == EventsOf("pipe.transform")
HandlerEvents == EventsOf("handler")
FilterEvents == EventsOf("filter.catch")
DefaultEvents == EventsOf("default.catch")

FilterScopes == {"global", "controller", "method"}

\* Order the specification gives to the guard scopes.
GuardRank(scope) ==
    CASE scope = "global" -> 1 [] scope = "controller" -> 2 [] OTHER -> 3

\* Order the specification gives to the filter scopes.
FilterRank(scope) ==
    CASE scope = "method" -> 1 [] scope = "controller" -> 2 [] OTHER -> 3

\* ExceptionFilterExecutor.execute was entered for this request.
ExecuteEntered ==
    \/ pc = "filters"
    \/ pc = "done" /\ response.by \in FilterScopes \cup {"default", "fallback"}

\* C2: for a matched request the stages run in the order guards, parameters
\* and pipes, interceptor chain around the handler, response shaping: the
\* handler is invoked only after every guard allowed and every parameter is
\* resolved, the interceptors declared for the route run around the handler
\* invocation, and a failure thrown by a stage goes to filter dispatch.
C2_StageOrder ==
    /\ \A i \in 1..Len(log) :
         log[i].ev = "handler" =>
           /\ \A k \in 1..Len(guards) :
                \E j \in 1..(i - 1) :
                  /\ log[j].ev = "guard.canActivate"
                  /\ log[j].scope = guards[k].scope /\ log[j].idx = guards[k].idx
                  /\ log[j].out = "truthy"
           /\ Len(args) = Len(meta.params)
           /\ meta.interceptors > 0 =>
                \E j \in 1..(i - 1) : log[j].ev = "interceptor.intercept"
    /\ err # NoErr => pc \in {"catch", "filters", "done"}

\* The stage order the closure implements: guards, parameters and pipes,
\* handler; no interceptor is ever called.
StagesWithoutInterceptors ==
    /\ \A i \in 1..Len(log) :
         log[i].ev = "handler" =>
           /\ \A k \in 1..Len(guards) :
                \E j \in 1..(i - 1) :
                  /\ log[j].ev = "guard.canActivate"
                  /\ log[j].scope = guards[k].scope /\ log[j].idx = guards[k].idx
                  /\ log[j].out = "truthy"
           /\ Len(args) = Len(meta.params)
    /\ \A j \in 1..Len(log) : log[j].ev # "interceptor.intercept"

\* C3: once a global guard has rejected (returned a falsy value or thrown),
\* no controller-level or method-level guard has run for the request, and
\* no pipe and not the handler has been invoked.
C3_GlobalRejectStopsAll ==
    (\E i \in 1..Len(log) :
        /\ log[i].ev = "guard.canActivate"
        /\ log[i].scope = "global"
        /\ log[i].out # "truthy")
    => \A j \in 1..Len(log) :
         /\ ~(log[j].ev = "guard.canActivate"
              /\ log[j].scope \in {"controller", "method"})
         /\ log[j].ev \notin {"pipe.transform", "handler"}

\* C3 witness: a global guard rejected a request whose route has a
\* controller-level and a method-level guard, and the request is answered.
C3_Witness ==
    /\ pc = "done" /\ response.by = "guard"
    /\ \E k \in 1..Len(guards) : guards[k].scope = "controller"
    /\ \E k \in 1..Len(guards) : guards[k].scope = "method"
    /\ Len(GuardEvents) = 2
    /\ GuardEvents[2].scope = "global" /\ GuardEvents[2].out = "throws"

\* C4: guards run one at a time, global ones first (registration order),
\* then controller-level, then method-level; a guard runs only after all
\* earlier ones returned a truthy result, every guard that could be built
\* has run before the handler is called, and the first falsy result or
\* throw ends the request with the rejection, no later guard running.
C4_GuardOrder ==
    LET ge == GuardEvents
        n == Len(ge)
        instantiable(defs) == Cardinality({i \in 1..Len(defs) : defs[i] = "class"})
    IN  /\ \A k \in 1..(n - 1) :
             /\ ge[k].out = "truthy"
             /\ \/ GuardRank(ge[k].scope) < GuardRank(ge[k + 1].scope)
                \/ /\ ge[k].scope = ge[k + 1].scope
                   /\ ge[k].idx < ge[k + 1].idx
        /\ (n > 0 /\ ge[n].out # "truthy") =>
             /\ log[Len(log)] = ge[n]
             /\ pc = "done" /\ response.by = "guard"
        /\ Len(HandlerEvents) > 0 =>
             /\ n = instantiable(meta.globalGuards) + instantiable(meta.ctrlGuards)
                      + instantiable(meta.methodGuards)
             /\ n > 0 => ge[n].out = "truthy"

\* C4 witness: guards of all three scopes ran and the method-level one, the
\* last of four, rejected.
C4_Witness ==
    /\ pc = "done" /\ response.by = "guard"
    /\ Len(GuardEvents) = 4
    /\ GuardEvents[1].scope = "global" /\ GuardEvents[2].scope = "global"
    /\ GuardEvents[3].scope = "controller"
    /\ GuardEvents[4].scope = "method" /\ GuardEvents[4].out = "falsy"

\* The markers of the first n pipes of a scope, in registration order.
Markers(scope, n) == [i \in 1..n |-> Marker(scope, i)]

C6_FilterOrder ==
    \A k \in 1..(Len(FilterEvents) - 1) :
        FilterRank(FilterEvents[k].scope) <= FilterRank(FilterEvents[k + 1].scope)

\* The order the closure tries filters in: global first, then
\* controller-level, then method-level.
GlobalFiltersFirst ==
    \A k \in 1..(Len(FilterEvents) - 1) :
        GuardRank(FilterEvents[k].scope) <= GuardRank(FilterEvents[k + 1].scope)

\* C7: ExceptionFilterExecutor.execute tries the filters in list order; a
\* filter that returns nothing (or no Response) or throws is skipped and the
\* next one is tried; the Response of the first filter that returns one is
\* the result, and no filter after it is invoked.
C7_FirstResponseWins ==
    LET fe == FilterEvents
        n == Len(fe)
        skipped == {"nothing", "nonResponse", "throws"}
    IN  /\ \A k \in 1..n :
             /\ k <= Len(filters)
             /\ fe[k].scope = filters[k].scope /\ fe[k].idx = filters[k].idx
        /\ pc = "filters" => /\ n = fi - 1
                             /\ n > 0 => lastOut \in skipped
        /\ lastOut = "response" =>
             /\ pc = "done"
             /\ response = FilterResponse(err, filters[n])
             /\ log[Len(log)] = fe[n]
        /\ (pc = "done" /\ response.by \in FilterScopes) => lastOut = "response"
        /\ (pc = "done" /\ response.by = "default") =>
             /\ n = Len(filters)
             /\ n > 0 => lastOut \in skipped

\* C7 witness: two filters were skipped (one threw) and the third one's
\* Response was returned.
C7_Witness ==
    /\ pc = "done"
    /\ Len(FilterEvents) = 3
    /\ response.by = filters[3].scope /\ response.idx = filters[3].idx
    /\ Len(filters) > 3

\* C8: handling a request always ends with a response returned to the
\* caller; no exception leaves the closure.
C8_AlwaysOneResponse ==
    /\ pc # "escaped"
    /\ pc = "done" => response # NoResponse

\* C9: when no registered filter produced a response, the response has a
\* numeric status and a non-empty message, and the error is not left
\* unhandled.
C9_FallbackHasStatusAndMessage ==
    Len(DefaultEvents) > 0 =>
        /\ pc = "done"
        /\ response.kind = "Response"
        /\ response.status \in 100..599
        /\ response.message # ""

\* C10: when execute finds no filter that produces a response, the default
\* filter's result is returned: status and message of an HttpException are
\* taken over exactly, every other thrown value gives status 500.
C10_DefaultFilterRules ==
    (ExecuteEntered /\ pc = "done") =>
        /\ lastOut # "response" => response.by = "default"
        /\ response.by = "default" =>
             IF err.cls = "HttpException"
             THEN response.status = err.status /\ response.message = err.message
             ELSE response.status = 500

\* C10 witness: a registered filter was skipped and the default filter
\* answered an HttpException.
C10_Witness ==
    /\ pc = "done" /\ response.by = "default"
    /\ Len(FilterEvents) > 0
    /\ err.cls = "HttpException" /\ err.status = 400

(***************************************************************************)
(* Part 2: one run of InterceptorExecutor.execute                          *)
(*                                                                         *)
(* ic.interceptors  behaviour of each interceptor of the list              *)
(* ic.handler       behaviour of the original handler                      *)
(* ic.i             the wrapper that runs next                             *)
(* ic.promises      the promise returned by each wrapper (async function)  *)
(* ic.events        before / handler / after, in the order they happened   *)
(* ic.result        how the promise returned by execute settled            *)
(***************************************************************************)
\* What an interceptor does in intercept(context, next):
\*  "wrap"          records "before", calls next.handle() and returns an
\*                  observable that subscribes to it and records "after" in
\*                  its next callback (LoggingInterceptor, 355-378)
\*  "shortCircuit"  returns SimpleObservable.of(cached) without calling
\*                  next.handle() (CacheInterceptor on a hit, 400-404)
\*  "throws"        throws before it calls next.handle()
\*  "wrapNoComplete" as "wrap", but the observable it returns passes on only
\*                  the inner value: it never signals completion (or error)
InterceptorKinds == {"wrap", "shortCircuit", "throws", "wrapNoComplete"}

\* The interceptor calls next.handle() and subscribes to it.
CallsNext(kind) == kind \in {"wrap", "wrapNoComplete"}

\* handler: () => Promise<T> | T
HandlerKinds == {"syncValue", "syncThrow", "asyncValue", "asyncReject"}

NotCreated == [st |-> "none", v |-> "-"]
Pending == [st |-> "pending", v |-> "-"]
Fulfilled(v) == [st |-> "fulfilled", v |-> v]
Rejected(e) == [st |-> "rejected", v |-> e]

\* wildcard-routes-example.ts:331-334  the promise of observableToPromise
\* after next(val) when no complete() follows: val is kept in a local
\* variable and neither resolve nor reject is ever called.
Stalled == [st |-> "stalled", v |-> "-"]

\* How the promise of wrapper j ends when its interceptor's observable is
\* handed the outcome of the inner computation.
Passed(kind, outcome) == IF kind = "wrapNoComplete" THEN Stalled ELSE outcome

IcEvent(ev, idx) == [ev |-> ev, idx |-> idx]

\* How the promise of an invoked handler settles.
HandlerOutcome(h) ==
    IF h \in {"syncValue", "asyncValue"}
    THEN Fulfilled("value")
    ELSE Rejected("handlerError")

\* InterceptorExecutor.observableToPromise on an observable that emits while
\* subscribe() is still running (SimpleObservable.of, or the error
\* observable of CallHandlerImpl.handle): the error / complete callback
\* reads `subscription` before `const subscription = observable.subscribe(..)`
\* has initialised it, the ReferenceError is routed by the try/catch of
\* SimpleObservable.subscribe to the error callback, which throws it again,
\* and the Promise executor turns it into a rejection.
observableToPromise_sync == Rejected("ReferenceError")

\* The observable handed to wrapper j emits synchronously on subscribe.
EmitsOnSubscribe(j) ==
    \/ ic.interceptors[j] = "shortCircuit"
    \/ /\ CallsNext(ic.interceptors[j])
       /\ j = Len(ic.interceptors)
       /\ ic.handler \in {"syncValue", "syncThrow"}

IdleMeta == Meta(<<>>, <<>>, <<>>, <<>>, <<>>, <<>>, <<>>, <<>>, <<>>, 0)

InitIc ==
    /\ meta = IdleMeta
    /\ pc = "idle"
    /\ guards = <<>> /\ gi = 1
    /\ pk = 1 /\ allPipes = <<>> /\ pi = 1 /\ value = <<>> /\ args = <<>>
    /\ err = NoErr
    /\ filters = <<>> /\ fi = 1 /\ lastOut = "none"
    /\ response = NoResponse
    /\ log = <<>>
    /\ EmptyContainer
    /\ IdleRouting
    /\ NoRuns
    /\ \E l \in BSeq(InterceptorKinds, MaxInterceptors), h \in HandlerKinds :
         ic = [phase |-> "start", interceptors |-> l, handler |-> h, i |-> 0,
               promises |-> [j \in 1..Len(l) |-> NotCreated],
               events |-> <<>>, result |-> NotCreated]

\* 301-303  if (interceptors.length === 0) return await handler()
execute_NoInterceptors ==
    /\ ic.phase = "start"
    /\ Len(ic.interceptors) = 0
    /\ ic' = [ic EXCEPT !.phase = "done",
                        !.events = Append(@, IcEvent("handler", 0)),
                        !.result = HandlerOutcome(ic.handler)]
    /\ UNCHANGED <<pvars, cvars, rvars>>

\* 305-319  build the chain from the last interceptor to the first, then
\* currentHandler.handle() calls the wrapper of the first interceptor
execute_BuildChain ==
    /\ ic.phase = "start"
    /\ Len(ic.interceptors) > 0
    /\ ic' = [ic EXCEPT !.phase = "intercept", !.i = 1]
    /\ UNCHANGED <<pvars, cvars, rvars>>

\* 313-316 + 355-378  the wrapper calls interceptor.intercept, which calls
\* next.handle(): the wrapper of the next interceptor, or the handler
InterceptWrap ==
    /\ ic.phase = "intercept"
    /\ CallsNext(ic.interceptors[ic.i])
    /\ ic' = [ic EXCEPT !.events = Append(@, IcEvent("before", ic.i)),
                        !.promises[ic.i] = Pending,
                        !.phase = IF ic.i = Len(ic.interceptors)
                                  THEN "handler" ELSE "intercept",
                        !.i = IF ic.i = Len(ic.interceptors) THEN @ ELSE @ + 1]
    /\ UNCHANGED <<pvars, cvars, rvars>>

\* 313-316 + 400-404  intercept returns without calling next.handle()
InterceptShortCircuit ==
    /\ ic.phase = "intercept"
    /\ ic.interceptors[ic.i] = "shortCircuit"
    /\ ic' = [ic EXCEPT !.events = Append(@, IcEvent("before", ic.i)),
                        !.promises[ic.i] = Pending,
                        !.phase = "resume"]
    /\ UNCHANGED <<pvars, cvars, rvars>>

\* 313-316  intercept throws: the async wrapper returns a rejected promise
InterceptThrows ==
    /\ ic.phase = "intercept"
    /\ ic.interceptors[ic.i] = "throws"
    /\ ic' = [ic EXCEPT !.promises[ic.i] = Rejected("interceptError"),
                        !.phase = IF ic.i = 1 THEN "settle" ELSE "resume",
                        !.i = @ - 1]
    /\ UNCHANGED <<pvars, cvars, rvars>>

\* 242-247  CallHandlerImpl.handle of the innermost handler calls the
\* original handler at once
CallHandler ==
    /\ ic.phase = "handler"
    /\ ic' = [ic EXCEPT !.events = Append(@, IcEvent("handler", 0)),
                        !.phase = "resume"]
    /\ UNCHANGED <<pvars, cvars, rvars>>

\* 314-315  after `await interceptor.intercept(..)` wrapper i (innermost
\* first) calls observableToPromise, which subscribes to the observable
Resume ==
    /\ ic.phase = "resume"
    /\ ic.i >= 1
    /\ ic' = [ic EXCEPT
                !.events = IF /\ CallsNext(ic.interceptors[ic.i])
                              /\ EmitsOnSubscribe(ic.i)
                              /\ ic.handler = "syncValue"
                           THEN Append(@, IcEvent("after", ic.i)) ELSE @,
                !.promises[ic.i] = IF EmitsOnSubscribe(ic.i)
                                   THEN Passed(ic.interceptors[ic.i],
                                               observableToPromise_sync)
                                   ELSE @,
                !.phase = IF ic.i = 1 THEN "settle" ELSE "resume",
                !.i = @ - 1]
    /\ UNCHANGED <<pvars, cvars, rvars>>

\* 180-191  SimpleObservable.fromPromise: the promise of an async handler
\* settles and is delivered to the innermost interceptor's observable
HandlerPromiseSettles ==
    LET n == Len(ic.interceptors) IN
    /\ ic.phase = "settle"
    /\ ic.handler \in {"asyncValue", "asyncReject"}
    /\ IcEvent("handler", 0) \in Range(ic.events)
    /\ ic.promises[n] = Pending
    /\ ic' = [ic EXCEPT
                !.events = IF ic.handler = "asyncValue"
                           THEN Append(@, IcEvent("after", n)) ELSE @,
                !.promises[n] = Passed(ic.interceptors[n],
                                       HandlerOutcome(ic.handler))]
    /\ UNCHANGED <<pvars, cvars, rvars>>

\* 180-191 + 325-349  the promise of wrapper j+1 settles: a value goes
\* through interceptor j's next callback, an error to its error callback
Deliver ==
    /\ ic.phase = "settle"
    /\ \E j \in 1..(Len(ic.interceptors) - 1) :
         /\ ic.promises[j] = Pending
         /\ ic.promises[j + 1].st \in {"fulfilled", "rejected"}
         /\ ic' = [ic EXCEPT
                     !.events = IF ic.promises[j + 1].st = "fulfilled"
                                THEN Append(@, IcEvent("after", j)) ELSE @,
                     !.promises[j] = Passed(ic.interceptors[j],
                                            ic.promises[j + 1])]
    /\ UNCHANGED <<pvars, cvars, rvars>>

\* 319  return this.observableToPromise(currentHandler.handle())
Finish ==
    /\ ic.phase = "settle"
    /\ ic.promises[1].st \in {"fulfilled", "rejected"}
    /\ ic' = [ic EXCEPT !.phase = "done", !.result = ic.promises[1]]
    /\ UNCHANGED <<pvars, cvars, rvars>>

NextIc ==
    \/ execute_NoInterceptors
    \/ execute_BuildChain
    \/ InterceptWrap
    \/ InterceptShortCircuit
    \/ InterceptThrows
    \/ CallHandler
    \/ Resume
    \/ HandlerPromiseSettles
    \/ Deliver
    \/ Finish

SpecInterceptor == InitIc /\ [][NextIc]_vars

\* Every callback and continuation that is ready is run by the event loop.
SpecInterceptorFair == SpecInterceptor /\ WF_vars(NextIc)

(***************************************************************************)
(* Properties of InterceptorExecutor.execute                               *)
(***************************************************************************)
\* before(1..n), handler, after(n..1)
OnionOrder(n) ==
    [k \in 1..(2 * n + 1) |->
        IF k <= n THEN IcEvent("before", k)
        ELSE IF k = n + 1 THEN IcEvent("handler", 0)
        ELSE IcEvent("after", 2 * n + 2 - k)]

AllWrap == \A j \in 1..Len(ic.interceptors) : ic.interceptors[j] = "wrap"

\* C1: when every interceptor of the list records "before", subscribes to
\* next.handle() and records "after" when the inner value arrives, and the
\* handler yields a value, a finished run of execute has produced the
\* events before(1), .., before(n), handler, after(n), .., after(1).
C1_OnionOrder ==
    (/\ ic.phase = "done"
     /\ AllWrap
     /\ ic.handler \in {"syncValue", "asyncValue"})
    => ic.events = OnionOrder(Len(ic.interceptors))

\* The onion order as the executor delivers it: for a handler that returns
\* a promise.
OnionOrderForAsyncHandler ==
    (/\ ic.phase = "done"
     /\ AllWrap
     /\ ic.handler = "asyncValue")
    => /\ ic.events = OnionOrder(Len(ic.interceptors))
       /\ ic.result = Fulfilled("value")

(***************************************************************************)
(* Part 3: the dependency injection container                              *)
(***************************************************************************)
\* The request handler closure and the interceptor executor are not running.
IdlePipeline ==
    /\ meta = IdleMeta
    /\ pc = "idle"
    /\ guards = <<>> /\ gi = 1
    /\ pk = 1 /\ allPipes = <<>> /\ pi = 1 /\ value = <<>> /\ args = <<>>
    /\ err = NoErr
    /\ filters = <<>> /\ fi = 1 /\ lastOut = "none"
    /\ response = NoResponse
    /\ log = <<>>
    /\ ic = IcIdle

\* The classes given to the container, each named by its constructor's name:
\*   @Injectable() class S {}
\*   @Injectable({ scope: "transient" }) class T {}
\*   @Injectable() class D { constructor(s: S, label: string, t: T) {} }
\*   class U {}                                   (no decorator)
Classes == {"S", "T", "D", "U"}

Primitives == {"String", "Number", "Boolean"}

\* unnamed/part_009:12  Reflect.defineMetadata("scope", options?.scope || "singleton")
ClassScope(c) ==
    CASE c \in {"S", "D"} -> "singleton"
      [] c = "T" -> "transient"
      [] OTHER -> "undefined"

\* Reflect.getMetadata("design:paramtypes", ServiceClass) || []
ParamTypes(c) == IF c = "D" THEN <<"S", "String", "T">> ELSE <<>>

StringToken(name) == [kind |-> "string", name |-> name]
CtorToken(c) == [kind |-> "ctor", name |-> c]
ResolveTokens == {StringToken(t) : t \in Tokens} \cup {CtorToken(c) : c \in Classes}

Undefined == [kind |-> "undefined", id |-> 0, cls |-> "undefined", args |-> <<>>]
Instance(id, c, as) == [kind |-> "instance", id |-> id, cls |-> c, args |-> as]
\* container.ts:55  throw new Error(`服务 ${serviceToken} 未找到`)
ServiceNotFound(name) ==
    [kind |-> "error", id |-> 0, cls |-> "service not found", args |-> <<name>>]

\* A reference to an instance, as it is held in a constructor argument.
Ref(inst) == [kind |-> inst.kind, id |-> inst.id, cls |-> inst.cls]

CState(sv, sg, n) == [services |-> sv, singletons |-> sg, nextId |-> n]

\* container.ts:40-43  the scope that resolve works with
ResolveScope(token, st) ==
    IF token.kind = "ctor" THEN ClassScope(token.name) ELSE "singleton"

\* container.ts:45  the cache is consulted under serviceToken
CacheHit(scope, name, st) ==
    /\ scope = "singleton"
    /\ st.singletons[name] # NoInstance

\* container.ts:64-70  what a constructor parameter of a primitive type gets
PrimitiveArgument(paramType) == Ref(Undefined)

RECURSIVE resolve(_, _)
RECURSIVE resolveDependencies(_, _, _, _)

\* container.ts:63-72  paramTypes.map(...), left to right
resolveDependencies(paramTypes, k, st, acc) ==
    IF k > Len(paramTypes) THEN [st |-> st, args |-> acc]
    ELSE IF paramTypes[k] \in Primitives
    THEN resolveDependencies(paramTypes, k + 1, st,
                             Append(acc, PrimitiveArgument(paramTypes[k])))
    ELSE LET r == resolve(CtorToken(paramTypes[k]), st)
         IN  resolveDependencies(paramTypes, k + 1, r.st, Append(acc, Ref(r.res)))

\* container.ts:34-82  Container.resolve
resolve(token, st) ==
    LET serviceToken == token.name
        scope == ResolveScope(token, st)
    IN  IF CacheHit(scope, serviceToken, st)
        THEN [st |-> st, res |-> st.singletons[serviceToken]]
        ELSE LET ServiceClass == IF token.kind = "string"
                                 THEN st.services[token.name]
                                 ELSE token.name
             IN  IF ServiceClass = NoClass
                 THEN [st |-> st, res |-> ServiceNotFound(serviceToken)]
                 ELSE LET d == resolveDependencies(ParamTypes(ServiceClass), 1, st, <<>>)
                          instance == Instance(d.st.nextId, ServiceClass, d.args)
                      IN  [st |-> [d.st EXCEPT
                                     !.nextId = @ + 1,
                                     !.singletons =
                                        IF scope = "singleton"
                                        THEN [@ EXCEPT ![serviceToken] = instance]
                                        ELSE @],
                           res |-> instance]

\* container.ts:26-28  this.services.set(token, target)
register_KeepFirst(sv, token, target) ==
    IF sv[token] = NoClass THEN [sv EXCEPT ![token] = target] ELSE sv

register(sv, token, target) == [sv EXCEPT ![token] = target]

InitContainer ==
    /\ IdlePipeline
    /\ EmptyContainer
    /\ IdleRouting
    /\ NoRuns

\* container.register(token, target)
Register ==
    \E t \in Tokens, c \in Classes :
        /\ services' = register(services, t, c)
        /\ Cardinality({u \in Tokens : services'[u] # NoClass}) <= MaxRegistered
        /\ lastOp' = [NoOp EXCEPT !.op = "register",
                                  !.token = StringToken(t), !.cls = c]
        /\ UNCHANGED <<singletons, nextId>>
        /\ UNCHANGED <<pvars, ic, rvars>>

\* What the call before this one returned, when it was a resolve call for
\* the same token (the constructor or its name); NoInstance otherwise.
PreviousResult(token) ==
    IF lastOp.op = "resolve" /\ lastOp.token.name = token.name
       /\ lastOp.res.kind = "instance"
    THEN lastOp.res
    ELSE NoInstance

\* container.resolve(token), the whole recursive call
Resolve ==
    \E token \in ResolveTokens :
        LET r == resolve(token, CState(services, singletons, nextId)) IN
        /\ r.st.nextId <= MaxInstances + 1
        /\ singletons' = r.st.singletons
        /\ nextId' = r.st.nextId
        /\ lastOp' = [NoOp EXCEPT !.op = "resolve", !.token = token,
                                  !.cls = IF token.kind = "string"
                                          THEN services[token.name]
                                          ELSE token.name,
                                  !.res = r.res,
                                  !.prev = PreviousResult(token)]
        /\ UNCHANGED services
        /\ UNCHANGED <<pvars, ic, rvars>>

\* container.ts:87-90  Container.clear
Clear ==
    /\ services' = [t \in Tokens |-> NoClass]
    /\ singletons' = [t \in Names |-> NoInstance]
    /\ lastOp' = [NoOp EXCEPT !.op = "clear"]
    /\ UNCHANGED nextId
    /\ UNCHANGED <<pvars, ic, rvars>>

NextContainer ==
    \/ Register
    \/ Resolve
    \/ Clear

SpecContainer == InitContainer /\ [][NextContainer]_vars

(***************************************************************************)
(* Properties of the container                                             *)
(***************************************************************************)
\* The arguments a fresh instance of class c must have been built with.
WellBuilt(inst, c) ==
    /\ inst.kind = "instance"
    /\ inst.cls = c
    /\ Len(inst.args) = Len(ParamTypes(c))
    /\ \A k \in 1..Len(inst.args) :
         IF ParamTypes(c)[k] \in Primitives
         THEN inst.args[k].kind = "undefined"
         ELSE /\ inst.args[k].kind = "instance"
              /\ inst.args[k].cls = ParamTypes(c)[k]

\* C11: with no clear in between, two resolve calls for the same token (a
\* constructor or its string token, both standing for the same class)
\* return the identical instance when that class is singleton-scoped and
\* two distinct instances when it is transient-scoped.
C11_ScopeIdentity ==
    (/\ lastOp.op = "resolve"
     /\ lastOp.res.kind = "instance"
     /\ lastOp.prev.kind = "instance"
     /\ lastOp.prev.cls = lastOp.cls)
    => /\ ClassScope(lastOp.cls) = "singleton" => lastOp.res.id = lastOp.prev.id
       /\ ClassScope(lastOp.cls) = "transient" => lastOp.res.id # lastOp.prev.id

\* C12: resolve of a string token that is not registered fails with the
\* "service not found" error; resolve of a constructor that is not
\* registered returns a new instance of it built through the recursive
\* dependency resolution.
C12_UnregisteredTokens ==
    lastOp.op = "resolve" =>
        /\ (lastOp.token.kind = "string" /\ services[lastOp.token.name] = NoClass)
             => lastOp.res = ServiceNotFound(lastOp.token.name)
        /\ (/\ lastOp.token.kind = "ctor"
            /\ \A t \in Tokens : services[t] # lastOp.token.name)
             => WellBuilt(lastOp.res, lastOp.token.name)

\* C13: after register(token, P), resolve(token) returns an instance of P
\* built with one argument per declared constructor parameter: the resolved
\* instance of the parameter's class, or undefined for String / Number /
\* Boolean.
C13_RegisterThenResolve ==
    (/\ lastOp.op = "resolve"
     /\ lastOp.token.kind = "string"
     /\ services[lastOp.token.name] # NoClass)
    => WellBuilt(lastOp.res, services[lastOp.token.name])

\* C14: register stores the constructor under the token and changes nothing
\* else: registering the pair that is already stored leaves the container as
\* it was, registering another constructor under the token replaces the
\* stored one, and the other tokens keep theirs.
C14_RegisterOverwrites ==
    [][lastOp'.op = "register" =>
         LET t == lastOp'.token.name
             c == lastOp'.cls
         IN  /\ services'[t] = c
             /\ \A u \in Tokens \ {t} : services'[u] = services[u]
             /\ services[t] = c => services' = services
             /\ singletons' = singletons /\ nextId' = nextId]_vars

\* C14 witness: token "x" was registered with S, resolved, and then
\* registered again with T, which replaced S.
C14_Witness ==
    /\ lastOp.op = "register"
    /\ lastOp.token.name = "x" /\ lastOp.cls = "T"
    /\ services["x"] = "T"
    /\ singletons["x"].cls = "S"

(***************************************************************************)
(* Part 4: routing.  A string is the sequence of its characters.           *)
(***************************************************************************)
\* The container, the handler closure and the interceptor executor are idle.
IdleOthers ==
    /\ IdlePipeline
    /\ EmptyContainer

\* String.prototype.split("/")
RECURSIVE SplitFrom(_, _, _, _)
SplitFrom(s, i, cur, acc) ==
    IF i > Len(s) THEN Append(acc, cur)
    ELSE IF s[i] = "/" THEN SplitFrom(s, i + 1, <<>>, Append(acc, cur))
    ELSE SplitFrom(s, i + 1, Append(cur, s[i]), acc)

Split(s) == SplitFrom(s, 1, <<>>, <<>>)

\* application.ts:349-350  path.split("/").filter(Boolean)
SegmentsOf(path) == SelectSeq(Split(path), LAMBDA piece : Len(piece) > 0)

\* Array.prototype.join("/")
RECURSIVE Join(_)
Join(parts) ==
    IF Len(parts) = 0 THEN <<>>
    ELSE IF Len(parts) = 1 THEN parts[1]
    ELSE parts[1] \o <<"/">> \o Join(Tail(parts))

\* "/" before every piece: <<"u", "", "p">> gives "/u//p", no piece gives "/"
RECURSIVE SlashBefore(_)
SlashBefore(pieces) ==
    IF Len(pieces) = 0 THEN <<>>
    ELSE <<"/">> \o pieces[1] \o SlashBefore(Tail(pieces))

PathOf(pieces) == IF Len(pieces) = 0 THEN <<"/">> ELSE SlashBefore(pieces)

\* Segments used in route declarations and in request URLs.
SegUsers == <<"u">>
SegPosts == <<"p">>
SegValue == <<"7">>
SegId == <<":", "i">>
SegStar == <<"*">>
SegGlob == <<"*", "*">>

RoutePieces == {SegUsers, SegPosts, SegId, SegStar, SegGlob, <<>>}
RequestPieces == {SegUsers, SegPosts, SegValue, <<>>}

NoParams == [n \in {} |-> <<>>]
Null == [called |-> TRUE, matched |-> FALSE, params |-> NoParams]
Params(ps) == [called |-> TRUE, matched |-> TRUE, params |-> ps]

\* params[paramName] = requestSegment
Bind(ps, name, val) ==
    [n \in DOMAIN ps \cup {name} |-> IF n = name THEN val ELSE ps[n]]

\* application.ts:358-374  the loop of matchRoute
RECURSIVE matchLoop(_, _, _, _)
matchLoop(routeSegments, requestSegments, i, ps) ==
    IF i > Len(routeSegments) THEN Params(ps)
    ELSE LET routeSegment == routeSegments[i]
             requestSegment == requestSegments[i]
         IN  IF Len(routeSegment) = 0 \/ Len(requestSegment) = 0 THEN Null
             ELSE IF routeSegment[1] = ":"
             THEN matchLoop(routeSegments, requestSegments, i + 1,
                            Bind(ps, Tail(routeSegment), requestSegment))
             ELSE IF routeSegment # requestSegment THEN Null
             ELSE matchLoop(routeSegments, requestSegments, i + 1, ps)

matchRoute_PrefixOnly(rPath, qPath) ==
    LET routeSegments == SegmentsOf(rPath)
        requestSegments == SegmentsOf(qPath)
    IN  IF Len(routeSegments) > Len(requestSegments) THEN Null
        ELSE matchLoop(routeSegments, requestSegments, 1, NoParams)

\* application.ts:345-377  Application.matchRoute
matchRoute(rPath, qPath) ==
    LET routeSegments == SegmentsOf(rPath)
        requestSegments == SegmentsOf(qPath)
    IN  IF Len(routeSegments) # Len(requestSegments) THEN Null
        ELSE matchLoop(routeSegments, requestSegments, 1, NoParams)

InitMatch ==
    /\ IdleOthers
    /\ NoRuns
    /\ routePath \in {PathOf(ps) : ps \in BSeq(RoutePieces, MaxSegments)}
    /\ requestPath \in {PathOf(ps) : ps \in BSeq(RequestPieces, MaxSegments)}
    /\ matchResult = NotCalled
    /\ routes = <<>>
    /\ options = [cors |-> TRUE, swagger |-> FALSE, staticDir |-> <<>>]
    /\ request = [method |-> "none", path |-> <<>>]
    /\ fetched = NotCalled
    /\ pathParts = <<>> /\ fullPath = NotCalled

\* this.matchRoute(route.path, pathname)
MatchRoute ==
    /\ matchResult = NotCalled
    /\ matchResult' = matchRoute(routePath, requestPath)
    /\ UNCHANGED <<pvars, ic, cvars>>
    /\ UNCHANGED <<routePath, requestPath, routes, options, request, fetched,
                   pathParts, fullPath>>

NextMatch == MatchRoute

SpecMatch == InitMatch /\ [][NextMatch]_vars

(***************************************************************************)
(* Properties of matchRoute                                                *)
(***************************************************************************)
\* The kinds of pattern segment the specification distinguishes.
IsParamSegment(seg) == seg[1] = ":"
IsStarSegment(seg) == seg = SegStar
IsGlobSegment(seg) == seg = SegGlob
IsStaticSegment(seg) ==
    ~IsParamSegment(seg) /\ ~IsStarSegment(seg) /\ ~IsGlobSegment(seg)

\* The per-segment rule: a static segment requires equality, a parameter
\* and a single-segment wildcard match any segment.
SegmentMatches(routeSegment, requestSegment) ==
    IsStaticSegment(routeSegment) => routeSegment = requestSegment

PatternSegments == SegmentsOf(routePath)
PathSegments == SegmentsOf(requestPath)

\* Every parameter of the first k pattern segments is bound to the request
\* segment at its position (at its last position when a name is repeated).
ParamsBound(k) ==
    \A i \in 1..k :
        (/\ IsParamSegment(PatternSegments[i])
         /\ \A j \in (i + 1)..k : PatternSegments[j] # PatternSegments[i])
        => /\ Tail(PatternSegments[i]) \in DOMAIN matchResult.params
           /\ matchResult.params[Tail(PatternSegments[i])] = PathSegments[i]

\* C15: for a pattern of static segments only, matchRoute returns the empty
\* binding set for a path with exactly these segments and null for a path
\* whose segment sequence differs.
C15_StaticRoutes ==
    (/\ matchResult.called
     /\ \A i \in 1..Len(PatternSegments) : IsStaticSegment(PatternSegments[i]))
    => IF PathSegments = PatternSegments
       THEN matchResult = Params(NoParams)
       ELSE matchResult = Null

\* C15 witness: a static pattern of two segments matched a path that is
\* written differently (a doubled or trailing slash) but has its segments.
C15_Witness ==
    /\ matchResult.called /\ matchResult.matched
    /\ Len(PatternSegments) = 2
    /\ \A i \in 1..2 : IsStaticSegment(PatternSegments[i])
    /\ requestPath # routePath
    /\ matchResult.params = NoParams

\* C16: for a pattern with :name segments and no `**`, matchRoute succeeds
\* iff the path has as many segments as the pattern and every static
\* segment is equal; on success every :name is bound to the segment at its
\* position.
C16_ParamRoutes ==
    (/\ matchResult.called
     /\ \E i \in 1..Len(PatternSegments) : IsParamSegment(PatternSegments[i])
     /\ \A i \in 1..Len(PatternSegments) : ~IsGlobSegment(PatternSegments[i]))
    => /\ matchResult.matched <=>
            /\ Len(PathSegments) = Len(PatternSegments)
            /\ \A i \in 1..Len(PatternSegments) :
                 IsStaticSegment(PatternSegments[i])
                 => PathSegments[i] = PatternSegments[i]
       /\ matchResult.matched => ParamsBound(Len(PatternSegments))

\* C17: for a pattern whose last segment is `**`, matchRoute succeeds iff
\* the path has at least the segments that precede the `**` and they match;
\* on success the remaining segments joined by "/" are bound under "**"
\* and the parameters of the prefix are bound.
C17_GlobRoutes ==
    LET k == Len(PatternSegments) - 1 IN
    (/\ matchResult.called
     /\ Len(PatternSegments) >= 1
     /\ IsGlobSegment(PatternSegments[k + 1])
     /\ \A i \in 1..k : ~IsGlobSegment(PatternSegments[i]))
    => /\ matchResult.matched <=>
            /\ Len(PathSegments) >= k
            /\ \A i \in 1..k : SegmentMatches(PatternSegments[i], PathSegments[i])
       /\ matchResult.matched =>
            /\ SegGlob \in DOMAIN matchResult.params
            /\ matchResult.params[SegGlob]
                 = Join(SubSeq(PathSegments, k + 1, Len(PathSegments)))
            /\ ParamsBound(k)

\* C18: a `*` segment matches exactly one segment of any value and binds
\* nothing: a pattern with `*` and without `**` matches iff the path has as
\* many segments and every segment matches by the per-segment rule, and the
\* bindings are those of the :name segments only.
C18_StarRoutes ==
    (/\ matchResult.called
     /\ \E i \in 1..Len(PatternSegments) : IsStarSegment(PatternSegments[i])
     /\ \A i \in 1..Len(PatternSegments) : ~IsGlobSegment(PatternSegments[i]))
    => /\ matchResult.matched <=>
            /\ Len(PathSegments) = Len(PatternSegments)
            /\ \A i \in 1..Len(PatternSegments) :
                 SegmentMatches(PatternSegments[i], PathSegments[i])
       /\ matchResult.matched =>
            DOMAIN matchResult.params
              = {Tail(PatternSegments[i]) :
                   i \in {j \in 1..Len(PatternSegments) :
                            IsParamSegment(PatternSegments[j])}}

(***************************************************************************)
(* Route registration: combinePaths                                        *)
(***************************************************************************)
PathChars == {"/", "a"}

\* path.replace(/^\/+|\/+$/g, "")
RECURSIVE StripLeading(_)
StripLeading(s) ==
    IF Len(s) > 0 /\ s[1] = "/" THEN StripLeading(Tail(s)) ELSE s

RECURSIVE StripTrailing(_)
StripTrailing(s) ==
    IF Len(s) > 0 /\ s[Len(s)] = "/"
    THEN StripTrailing(SubSeq(s, 1, Len(s) - 1)) ELSE s

StripSlashes(s) == StripTrailing(StripLeading(s))

\* .replace(/\/+/g, "/")
RECURSIVE CollapseSlashes(_)
CollapseSlashes(s) ==
    IF Len(s) < 2 THEN s
    ELSE IF s[1] = "/" /\ s[2] = "/" THEN CollapseSlashes(Tail(s))
    ELSE <<s[1]>> \o CollapseSlashes(Tail(s))

\* application.ts:199-208  Application.combinePaths
combinePaths(paths) ==
    LET kept == SelectSeq(paths, LAMBDA path : Len(path) > 0)
        stripped == [i \in 1..Len(kept) |-> StripSlashes(kept[i])]
    IN  <<"/">> \o CollapseSlashes(Join(stripped))

InitCombine ==
    /\ IdleOthers
    /\ NoRuns
    /\ routePath = <<>> /\ requestPath = <<>> /\ matchResult = NotCalled
    /\ routes = <<>>
    /\ options = [cors |-> TRUE, swagger |-> FALSE, staticDir |-> <<>>]
    /\ request = [method |-> "none", path |-> <<>>]
    /\ fetched = NotCalled
    /\ \E globalPrefix, controllerPath, path \in BSeq(PathChars, MaxPartLen) :
         pathParts = <<globalPrefix, controllerPath, path>>
    /\ fullPath = NotCalled

\* application.ts:178-182  loadController: this.combinePaths(globalPrefix,
\* controllerPath, route.path)
CombinePaths ==
    /\ fullPath = NotCalled
    /\ fullPath' = [called |-> TRUE, path |-> combinePaths(pathParts)]
    /\ UNCHANGED <<pvars, ic, cvars>>
    /\ UNCHANGED <<routePath, requestPath, matchResult, routes, options,
                   request, fetched, pathParts>>

NextCombine == CombinePaths

SpecCombine == InitCombine /\ [][NextCombine]_vars

\* C20: the path combinePaths returns starts with exactly one "/", has no
\* two consecutive slashes and does not end with a slash, unless it is the
\* single "/" that results when every part is empty.
C20_NormalizedPath ==
    fullPath.called =>
        LET p == fullPath.path IN
        /\ Len(p) >= 1 /\ p[1] = "/"
        /\ \A i \in 1..(Len(p) - 1) : ~(p[i] = "/" /\ p[i + 1] = "/")
        /\ Len(p) > 1 => p[Len(p)] # "/"

(***************************************************************************)
(* Request dispatch: the fetch callback of listen and findMatchingRoute    *)
(***************************************************************************)
DocsPath == <<"/", "d", "o", "c", "s">>
ApiDocsPath == <<"/", "a", "p", "i">> \o DocsPath
SwaggerPath == <<"/", "s", "w", "a", "g", "g", "e", "r">>
DocsJsonPath == DocsPath \o <<"-", "j", "s", "o", "n">>
ApiDocsJsonPath == ApiDocsPath \o <<"-", "j", "s", "o", "n">>
SwaggerJsonPath == SwaggerPath \o <<".", "j", "s", "o", "n">>

SegStatic == <<"s">>
StaticDirs == {<<>>, SegStatic}

\* the method decorators that exist: Get, Post (Put, Delete, Patch alike)
RouteMethods == {"GET", "POST"}
RequestMethods == RouteMethods \cup {"OPTIONS"}

RoutePaths ==
    {PathOf(<<SegUsers>>), PathOf(<<SegId>>), PathOf(<<SegUsers, SegId>>),
     PathOf(<<SegStatic, SegId>>), DocsPath}
RequestPaths ==
    {PathOf(<<SegUsers>>), PathOf(<<SegPosts>>), PathOf(<<SegUsers, SegValue>>),
     PathOf(<<SegStatic, SegValue>>), PathOf(<<SegUsers, SegValue, SegPosts>>),
     DocsPath, SwaggerPath, DocsJsonPath}

\* String.prototype.startsWith
StartsWith(s, prefix) ==
    /\ Len(prefix) <= Len(s)
    /\ SubSeq(s, 1, Len(prefix)) = prefix

NoRoute == 0

\* application.ts:213-340  for (const route of this.routes) { method, then
\* matchRoute; the first hit is returned }
RECURSIVE findFrom(_, _, _, _)
findFrom(rs, i, pathname, method) ==
    IF i > Len(rs) THEN NoRoute
    ELSE IF rs[i].method # method THEN findFrom(rs, i + 1, pathname, method)
    ELSE IF matchRoute(rs[i].path, pathname).matched THEN i
    ELSE findFrom(rs, i + 1, pathname, method)

RECURSIVE findBack(_, _, _, _)
findBack(rs, i, pathname, method) ==
    IF i < 1 THEN NoRoute
    ELSE IF rs[i].method # method THEN findBack(rs, i - 1, pathname, method)
    ELSE IF matchRoute(rs[i].path, pathname).matched THEN i
    ELSE findBack(rs, i - 1, pathname, method)

findMatchingRoute_LastMatch(rs, pathname, method) ==
    findBack(rs, Len(rs), pathname, method)

findMatchingRoute(rs, pathname, method) == findFrom(rs, 1, pathname, method)

Outcome(kind, status, route) ==
    [called |-> TRUE, kind |-> kind, status |-> status, route |-> route,
     handlerCalled |-> route # NoRoute]

\* application.ts:421-507  what the fetch callback answers, in the order of
\* its tests; fileStatus is the outcome of handleStaticFile (543-563)
fetch(rs, opts, method, pathname, fileStatus) ==
    IF method = "OPTIONS" THEN Outcome("preflight", 204, NoRoute)
    ELSE IF opts.swagger /\ pathname = DocsPath
    THEN Outcome("swaggerUI", 200, NoRoute)
    ELSE IF opts.swagger /\ pathname \in {ApiDocsPath, SwaggerPath}
    THEN Outcome("redirect", 301, NoRoute)
    ELSE IF opts.swagger /\ pathname = DocsJsonPath
    THEN Outcome("swaggerSpec", 200, NoRoute)
    ELSE IF opts.swagger /\ pathname \in {ApiDocsJsonPath, SwaggerJsonPath}
    THEN Outcome("redirect", 301, NoRoute)
    ELSE IF /\ Len(opts.staticDir) > 0
            /\ StartsWith(pathname, <<"/">> \o opts.staticDir \o <<"/">>)
    THEN Outcome("static", fileStatus, NoRoute)
    ELSE LET matchedRoute == findMatchingRoute(rs, pathname, method)
         IN  IF matchedRoute # NoRoute
             THEN Outcome("route", "handler", matchedRoute)
             ELSE Outcome("notFound", 404, NoRoute)

InitDispatch ==
    /\ IdleOthers
    /\ NoRuns
    /\ routePath = <<>> /\ requestPath = <<>> /\ matchResult = NotCalled
    /\ routes = <<>>
    /\ \E cors, swagger \in BOOLEAN, staticDir \in StaticDirs :
         options = [cors |-> cors, swagger |-> swagger,
                    staticDir |-> staticDir]
    /\ request = [method |-> "none", path |-> <<>>]
    /\ fetched = NotCalled
    /\ pathParts = <<>> /\ fullPath = NotCalled

\* application.ts:185-192  loadController: this.routes.push({...})
RegisterRoute ==
    /\ fetched = NotCalled
    /\ Len(routes) < MaxRoutes
    /\ \E method \in RouteMethods, path \in RoutePaths :
         routes' = Append(routes, [method |-> method, path |-> path])
    /\ UNCHANGED <<pvars, ic, cvars>>
    /\ UNCHANGED <<routePath, requestPath, matchResult, options, request,
                   fetched, pathParts, fullPath>>

\* application.ts:421-507  fetch: async (req) => { ... }
\* The callback keeps nothing from one request to the next, so a behaviour
\* follows the routes being loaded and then one request.
Fetch ==
    /\ fetched = NotCalled
    /\ \E method \in RequestMethods, pathname \in RequestPaths,
          fileStatus \in {200, 404, 500} :
         /\ request' = [method |-> method, path |-> pathname]
         /\ fetched' = fetch(routes, options, method, pathname, fileStatus)
    /\ UNCHANGED <<pvars, ic, cvars>>
    /\ UNCHANGED <<routePath, requestPath, matchResult, routes, options,
                   pathParts, fullPath>>

NextDispatch == RegisterRoute \/ Fetch

SpecDispatch == InitDispatch /\ [][NextDispatch]_vars

\* the routes whose method and path both match the request
MatchingRoutes ==
    {i \in 1..Len(routes) :
        /\ routes[i].method = request.method
        /\ matchRoute(routes[i].path, request.path).matched}

FirstOf(S) == CHOOSE i \in S : \A j \in S : i <= j

FirstMatchOrNotFound ==
    IF MatchingRoutes = {}
    THEN /\ fetched.kind = "notFound"
         /\ fetched.status = 404
         /\ ~fetched.handlerCalled
    ELSE /\ fetched.kind = "route"
         /\ fetched.handlerCalled
         /\ fetched.route = FirstOf(MatchingRoutes)

\* C19 as stated: of the routes matching a request's method and path the
\* first registered one is dispatched, and when none matches the answer is
\* 'not found' and no handler closure runs.
C19_FirstRouteWins == fetched.called => FirstMatchOrNotFound

\* requests the fetch callback answers before it looks at the routes
AnsweredBeforeRouting ==
    \/ request.method = "OPTIONS"
    \/ /\ options.swagger
       /\ request.path \in {DocsPath, ApiDocsPath, SwaggerPath, DocsJsonPath,
                            ApiDocsJsonPath, SwaggerJsonPath}
    \/ /\ Len(options.staticDir) > 0
       /\ StartsWith(request.path, <<"/">> \o options.staticDir \o <<"/">>)

\* C19 amended: for a request that is not a preflight, not a documentation
\* path and not under the static directory, the first registered matching
\* route is dispatched, and when none matches the answer is 404 and no
\* handler closure runs.
C19_FirstRouteWinsAfterBuiltins ==
    (fetched.called /\ ~AnsweredBeforeRouting) => FirstMatchOrNotFound

C19_Witness ==
    /\ fetched.called
    /\ ~AnsweredBeforeRouting
    /\ Cardinality(MatchingRoutes) >= 2
    /\ routes[1].path # routes[2].path
    /\ fetched.kind = "route"
    /\ fetched.route = 1

(***************************************************************************)
(* Part 5: one guard taken through GuardExecutor.canActivate               *)
(* (unnamed/part_004:87-150) and the rejection response of the handler     *)
(* closure (application.ts:245-273)                                        *)
(*                                                                         *)
(* gx.guard      what guard.canActivate(context) does                      *)
(* gx.delivered  events of the returned stream delivered so far            *)
(* gx.promise    the promise made by fromObservable                        *)
(* gx.verdict    the GuardResult                                           *)
(* gx.response   the Response of a rejection, gx.body its JSON body        *)
(***************************************************************************)
\* What a stream can deliver to its observer: next(true), next(false),
\* error(e), complete().
StreamErrors == {HttpException("bad request", 400), JsError("boom")}

StreamNext(b) == [ev |-> "next", val |-> b, thrown |-> NoErr]
StreamError(e) == [ev |-> "error", val |-> FALSE, thrown |-> e]
StreamComplete == [ev |-> "complete", val |-> FALSE, thrown |-> NoErr]

StreamEvents ==
    {StreamNext(b) : b \in BOOLEAN} \cup {StreamError(e) : e \in StreamErrors}
    \cup {StreamComplete}

\* Nothing follows error or complete.
Streams ==
    {es \in BSeq(StreamEvents, MaxEmissions) :
        \A i \in 1..(Len(es) - 1) : es[i].ev = "next"}

\* What an observable does with an exception thrown by an observer callback
\* while subscribe() is running: let it leave subscribe (a bare observable,
\* and SimpleObservable after its error callback threw too), or drop it and
\* go on.
CallbackThrowPolicies == {"propagate", "swallow"}

PlainGuard(out) ==
    [ret |-> out.ret, thrown |-> out.thrown, events |-> <<>>, sync |-> 0,
     onThrow |-> "propagate"]

\* A guard that returns a stream: the first `sync` events are delivered
\* while subscribe() is running, the others later.
StreamGuard(es, sync, policy) ==
    [ret |-> "stream", thrown |-> NoErr, events |-> es, sync |-> sync,
     onThrow |-> policy]

GuardRuns ==
    {PlainGuard(out) : out \in GuardOutcomes}
    \cup {StreamGuard(es, k, p) :
            es \in Streams, k \in 0..MaxEmissions, p \in CallbackThrowPolicies}

\* unnamed/part_004:137, 141, 145  every callback starts with
\* subscription.unsubscribe(), and `subscription` is the constant being
\* initialised by the subscribe() call that is still running.
SubscriptionReferenceError ==
    JsError("Cannot access 'subscription' before initialization")

\* unnamed/part_004:118 / 99-102, 105-108, 112-115
Allowed == [canActivate |-> TRUE, error |-> NoErr]
Denied(out) == [canActivate |-> FALSE, error |-> GuardError(out)]

NoVerdict == [canActivate |-> FALSE, error |-> NoErr]

\* application.ts:262-265  JSON.stringify({ error, message })
guardResponseBody(resp) ==
    [error |-> "guard check failed", message |-> resp.message]

InitGuard ==
    /\ IdleOthers
    /\ IdleRouting
    /\ pr = NoRun /\ rc = NoRun /\ NoCalls
    /\ \E g \in GuardRuns :
         /\ g.sync <= Len(g.events)
         /\ gx = [phase |-> "start", guard |-> g, delivered |-> 0,
                  promise |-> NotCreated, verdict |-> NoVerdict,
                  response |-> NoResponse, body |-> <<>>]

\* unnamed/part_004:93-116  await guard.canActivate(context) for a guard
\* that returns a plain value (or a promise of one) or throws
CallPlainGuard ==
    /\ gx.phase = "start"
    /\ gx.guard.ret # "stream"
    /\ gx' = [gx EXCEPT
                !.phase = "verdict",
                !.verdict = IF gx.guard.ret = "truthy" THEN Allowed
                            ELSE Denied([ret |-> gx.guard.ret,
                                         thrown |-> gx.guard.thrown])]
    /\ UNCHANGED <<qvars, ic, cvars, rvars, pr, rc, yvars>>

\* unnamed/part_004:96-97, 134-148  isObservable(result), then the executor
\* of fromObservable calls observable.subscribe: the events the stream
\* delivers at once reach callbacks that throw
Subscribe ==
    /\ gx.phase = "start"
    /\ gx.guard.ret = "stream"
    /\ gx' = IF gx.guard.sync = 0
             THEN [gx EXCEPT !.phase = "waiting", !.promise = Pending]
             ELSE IF gx.guard.onThrow = "propagate"
             THEN [gx EXCEPT !.phase = "settled",
                             !.delivered = 1,
                             !.promise = Rejected(SubscriptionReferenceError)]
             ELSE [gx EXCEPT !.phase = "waiting",
                             !.delivered = gx.guard.sync,
                             !.promise = Pending]
    /\ UNCHANGED <<qvars, ic, cvars, rvars, pr, rc, yvars>>

\* unnamed/part_004:136-147  a later event reaches its callback:
\* unsubscribe, then resolve(value) / reject(error) / resolve(false)
Emit ==
    /\ gx.phase = "waiting"
    /\ gx.delivered < Len(gx.guard.events)
    /\ LET e == gx.guard.events[gx.delivered + 1]
       IN  gx' = [gx EXCEPT
                    !.phase = "settled",
                    !.delivered = @ + 1,
                    !.promise = CASE e.ev = "next" -> Fulfilled(e.val)
                                  [] e.ev = "error" -> Rejected(e.thrown)
                                  [] OTHER -> Fulfilled(FALSE)]
    /\ UNCHANGED <<qvars, ic, cvars, rvars, pr, rc, yvars>>

\* unnamed/part_004:97-103, 110-116  await this.fromObservable(result)
AwaitStream ==
    /\ gx.phase = "settled"
    /\ gx' = [gx EXCEPT
                !.phase = "verdict",
                !.verdict =
                   IF gx.promise.st = "rejected"
                   THEN Denied([ret |-> "throws", thrown |-> gx.promise.v])
                   ELSE IF gx.promise.v THEN Allowed
                   ELSE Denied([ret |-> "falsy", thrown |-> NoErr])]
    /\ UNCHANGED <<qvars, ic, cvars, rvars, pr, rc, yvars>>

\* application.ts:246-273  if (!guardResult.canActivate) return new Response
Respond ==
    /\ gx.phase = "verdict"
    /\ gx' = IF gx.verdict.canActivate
             THEN [gx EXCEPT !.phase = "allowed"]
             ELSE LET resp == guardResponse(gx.verdict.error)
                  IN  [gx EXCEPT !.phase = "rejected",
                                 !.response = resp,
                                 !.body = guardResponseBody(resp)]
    /\ UNCHANGED <<qvars, ic, cvars, rvars, pr, rc, yvars>>

NextGuard ==
    \/ CallPlainGuard
    \/ Subscribe
    \/ Emit
    \/ AwaitStream
    \/ Respond

SpecGuard == InitGuard /\ [][NextGuard]_vars

(***************************************************************************)
(* Properties of the guard stage                                           *)
(***************************************************************************)
\* The thrown value has a status and a message property.
CarriesStatusAndMessage(e) == e.cls \in {"HttpException", "Object"}

\* C21: when the guard stage rejects, a thrown value that carries a status
\* and a message gives a response with exactly that status and message;
\* a falsy result and a thrown value without a status give status 403.
C21_GuardRejectionStatus ==
    gx.phase = "rejected" =>
        /\ (gx.guard.ret = "throws" /\ CarriesStatusAndMessage(gx.guard.thrown))
             => /\ gx.response.status = gx.guard.thrown.status
                /\ gx.response.message = gx.guard.thrown.message
        /\ \/ gx.guard.ret = "falsy"
           \/ (gx.guard.ret = "throws" /\ ~CarriesStatusAndMessage(gx.guard.thrown))
             => gx.response.status = 403

\* C22: the response of a guard rejection has a JSON body with a numeric
\* status field.
C22_RejectionBodyHasStatus ==
    gx.phase = "rejected" =>
        /\ gx.response.ctype = "application/json"
        /\ \E f \in DOMAIN gx.body :
             f \in {"status", "statusCode"} /\ gx.body[f] \in Nat

\* C23: the verdict of a guard that returns a stream is the first value the
\* stream emits, at once or later, and false when the stream completes
\* without a value: the request is allowed exactly when the first event is
\* next(true).
C23_StreamVerdict ==
    (/\ gx.guard.ret = "stream"
     /\ Len(gx.guard.events) > 0
     /\ gx.guard.events[1].ev \in {"next", "complete"}
     /\ gx.phase \in {"allowed", "rejected"})
    => (gx.phase = "allowed" <=> gx.guard.events[1] = StreamNext(TRUE))

(***************************************************************************)
(* Properties of the parameter stage                                       *)
(***************************************************************************)
\* C24: once a pipe has thrown, no pipe runs any more for the request (not
\* for the parameter being resolved and not for a later one), the handler
\* is not invoked, and the catch clause that dispatches to the exception
\* filters holds exactly the value the pipe threw.
C24_PipeFailureAborts ==
    \A i \in 1..Len(log) :
        (log[i].ev = "pipe.transform" /\ log[i].out = "throws") =>
            /\ i = Len(log) \/ pc \in {"filters", "done"}
            /\ \A j \in (i + 1)..Len(log) :
                 log[j].ev \in {"filter.catch", "default.catch"}
            /\ Len(HandlerEvents) = 0
            /\ Len(args) < Len(meta.params)
            /\ pc \in {"catch", "filters", "done"}
            /\ err = log[i].thrown
            /\ (pc = "done" /\ response.by \in FilterScopes) =>
                 response = FilterResponse(log[i].thrown, filters[fi])

\* What holds of a pipe failure whatever the filter resolution does: no pipe
\* and no handler runs after it and the catch clause is entered with the
\* thrown value.
PipeFailureReachesCatch ==
    \A i \in 1..Len(log) :
        (log[i].ev = "pipe.transform" /\ log[i].out = "throws") =>
            /\ \A j \in (i + 1)..Len(log) :
                 log[j].ev \in {"filter.catch", "default.catch"}
            /\ Len(HandlerEvents) = 0
            /\ pc \in {"catch", "filters", "done", "escaped"}
            /\ err = log[i].thrown

(***************************************************************************)
(* Part 6: ParamResolver.resolveParams position by position                *)
(* (decorators/guard.decorator.ts:323-410) and the handler call            *)
(* (application.ts:276-287)                                                *)
(*                                                                         *)
(* pr.slots     per handler parameter: how it is declared                  *)
(* pr.params    the "params" metadata still to be processed                *)
(* pr.resolved  resolvedParams                                             *)
(* pr.callArgs  the arguments route.handler was called with                *)
(***************************************************************************)
\* A handler parameter has no binding decorator, or one that extracts a
\* value, or one that extracts undefined (a query key that is absent).
SlotKinds == {"unbound", "value", "absent"}

RawRequest == [kind |-> "request", of |-> 0]
Hole == [kind |-> "undefined", of |-> 0]
Extracted(k) == [kind |-> "value", of |-> k]

\* guard.decorator.ts:246-250  one "params" entry per decorated parameter;
\* parameter decorators are applied from the last parameter to the first
RECURSIVE ParamsMetadata(_, _)
ParamsMetadata(slots, k) ==
    IF k = 0 THEN <<>>
    ELSE IF slots[k] = "unbound" THEN ParamsMetadata(slots, k - 1)
    ELSE <<k>> \o ParamsMetadata(slots, k - 1)

\* guard.decorator.ts:361-383  the switch on param.type
extract(slots, k) == IF slots[k] = "value" THEN Extracted(k) ELSE Hole

fillUnbound_KeepHoles(resolved, req) == resolved

\* guard.decorator.ts:402-407  if (resolvedParams[i] === undefined)
\*                               resolvedParams[i] = request
fillUnbound(resolved, req) ==
    [i \in 1..Len(resolved) |->
        IF resolved[i] = Hole THEN req ELSE resolved[i]]

\* application.ts:283-287
handlerArguments(resolved, req) ==
    IF Len(resolved) > 0 THEN resolved ELSE <<req>>

InitParams ==
    /\ IdleOthers
    /\ IdleRouting
    /\ gx = NoRun /\ rc = NoRun /\ NoCalls
    /\ \E slots \in BSeq(SlotKinds, MaxArity) :
         \* guard.decorator.ts:334  new Array(paramTypes.length)
         pr = [phase |-> "params", slots |-> slots,
               params |-> ParamsMetadata(slots, Len(slots)),
               resolved |-> [i \in 1..Len(slots) |-> Hole],
               callArgs |-> <<>>]

\* guard.decorator.ts:358-399  one iteration of `for (const param of params)`
ResolveParam ==
    /\ pr.phase = "params"
    /\ Len(pr.params) > 0
    /\ LET k == Head(pr.params)
       IN  pr' = [pr EXCEPT !.params = Tail(@),
                            !.resolved[k] = extract(pr.slots, k)]
    /\ UNCHANGED <<qvars, ic, cvars, rvars, gx, rc, yvars>>

\* guard.decorator.ts:401-409  the loop that fills the positions left
\* undefined, and the return
FillUnbound ==
    /\ pr.phase = "params"
    /\ Len(pr.params) = 0
    /\ pr' = [pr EXCEPT !.phase = "resolved",
                        !.resolved = fillUnbound(@, RawRequest)]
    /\ UNCHANGED <<qvars, ic, cvars, rvars, gx, rc, yvars>>

\* application.ts:283-287  route.handler(...resolvedParams) or
\* route.handler(req)
CallRouteHandler ==
    /\ pr.phase = "resolved"
    /\ pr' = [pr EXCEPT !.phase = "called",
                        !.callArgs = handlerArguments(pr.resolved, RawRequest)]
    /\ UNCHANGED <<qvars, ic, cvars, rvars, gx, rc, yvars>>

NextParams == ResolveParam \/ FillUnbound \/ CallRouteHandler

SpecParams == InitParams /\ [][NextParams]_vars

ShortCircuitValue == "cached"

\* The short-circuiting interceptors whose intercept method has been called.
ShortCircuited ==
    {j \in 1..Len(ic.interceptors) :
        /\ ic.interceptors[j] = "shortCircuit"
        /\ IcEvent("before", j) \in Range(ic.events)}

\* C26: when an interceptor returns a result without calling next.handle(),
\* neither the handler nor an interceptor declared after it is invoked, and
\* execute resolves with the value that interceptor produced.
C26_ShortCircuitIsLazy ==
    \A j \in ShortCircuited :
        /\ IcEvent("handler", 0) \notin Range(ic.events)
        /\ \A k \in (j + 1)..Len(ic.interceptors) :
             /\ IcEvent("before", k) \notin Range(ic.events)
             /\ ic.promises[k] = NotCreated
        /\ ic.phase = "done" => ic.result = Fulfilled(ShortCircuitValue)

\* The laziness alone: nothing behind a short-circuiting interceptor runs.
NothingRunsBehindShortCircuit ==
    \A j \in ShortCircuited :
        /\ IcEvent("handler", 0) \notin Range(ic.events)
        /\ \A k \in (j + 1)..Len(ic.interceptors) :
             /\ IcEvent("before", k) \notin Range(ic.events)
             /\ ic.promises[k] = NotCreated

\* Every interceptor of the list returns an observable that emits a value:
\* each calls next.handle() and passes the inner value on, and the handler
\* yields a value.
EveryChannelEmits ==
    /\ \A j \in 1..Len(ic.interceptors) : CallsNext(ic.interceptors[j])
    /\ ic.handler \in {"syncValue", "asyncValue"}

\* C27: a run of execute eventually settles, with one value or one error,
\* whenever every interceptor's observable emits a value, with or without a
\* completion signal; and an error no interceptor converts ends the run
\* with a rejection.
C27_SettlesOnce ==
    /\ EveryChannelEmits =>
         <>(ic.phase = "done" /\ ic.result.st \in {"fulfilled", "rejected"})
    /\ \A j \in 1..MaxInterceptors :
         (j <= Len(ic.interceptors) /\ ic.promises[j].st = "rejected")
           ~> (ic.phase = "done" /\ ic.result.st = "rejected")

\* What execute guarantees: a run in which every observable signals
\* completion or error settles.
SettlesWhenChannelsComplete ==
    (\A j \in 1..Len(ic.interceptors) : ic.interceptors[j] # "wrapNoComplete")
    => <>(ic.phase = "done" /\ ic.result.st \in {"fulfilled", "rejected"})

(***************************************************************************)
(* Properties of response shaping                                          *)
(***************************************************************************)
\* C28: whatever the handler returns, what the closure hands to its caller
\* for it is a response object (the handler's own Response, a text/plain
\* Response for a string, a Response built from any other value), never the
\* raw value.
C28_HandlerResultIsShaped ==
    (pc = "done" /\ response.by = "handler") =>
        /\ response.kind = "Response"
        /\ response.ctype \in {"application/json", "text/plain", ""}

(***************************************************************************)
(* Part 7: Container.resolve call by call (container/container.ts:34-82)   *)
(*                                                                         *)
(* rc.paramTypes  design:paramtypes of each class                          *)
(* rc.scope       the "scope" metadata of each class                       *)
(* rc.stack       the calls of resolve that have not returned, outermost   *)
(*                first; a frame holds the class, the dependencies         *)
(*                resolved so far, and the instance once `new` has started *)
(* rc.cache       Container.singletons                                     *)
(* rc.made        number of instances `new` has created                    *)
(* rc.returned    the instances resolve has returned, in order             *)
(* rc.stores      the singletons.set calls made, in order                  *)
(* rc.reentries   calls of resolve made by a running constructor           *)
(* rc.failed      the class whose constructor threw                        *)
(* rc.again       history: the singleton classes whose resolution was      *)
(*                entered while an earlier one had not yet stored          *)
(***************************************************************************)
Nodes == {"A", "B", "C"}

RequestedToken == "A"

Scopes == {"singleton", "transient"}

NotCached == [cls |-> "none", id |-> 0]

Made(cls, id) == [cls |-> cls, id |-> id]

Frame(cls, via) ==
    [cls |-> cls, via |-> via, deps |-> <<>>, inst |-> NotCached]

singletonHit_OrInProgress(r, cls) ==
    /\ r.scope[cls] = "singleton"
    /\ \/ r.cache[cls] # NotCached
       \/ \E i \in 1..Len(r.stack) : r.stack[i].cls = cls

\* container.ts:45-47  scope === "singleton" && this.singletons.has(token)
singletonHit(r, cls) ==
    /\ r.scope[cls] = "singleton"
    /\ r.cache[cls] # NotCached

\* container.ts:77-79  if (scope === "singleton") this.singletons.set(..)
storeSingleton_FirstWins(r, cls, inst) ==
    IF r.scope[cls] = "singleton" /\ r.cache[cls] = NotCached
    THEN [r EXCEPT !.cache[cls] = inst, !.stores = Append(@, inst)]
    ELSE r

storeSingleton(r, cls, inst) ==
    IF r.scope[cls] = "singleton"
    THEN [r EXCEPT !.cache[cls] = inst, !.stores = Append(@, inst)]
    ELSE r

\* container.ts:34-60  resolve is entered for a class that is not a cached
\* singleton
enter(r, cls, via) ==
    [r EXCEPT !.stack = Append(@, Frame(cls, via)),
              !.again = IF /\ r.scope[cls] = "singleton"
                           /\ \E i \in 1..Len(r.stack) : r.stack[i].cls = cls
                        THEN @ \cup {cls} ELSE @]

\* What a call of resolve that returns inst gives to its caller: the
\* requester (via = "request"), the dependencies array of the calling
\* resolve (via = "dependency"), or a running constructor (via = "reentry").
deliver(r, via, inst) ==
    LET popped == [r EXCEPT !.returned = Append(@, inst)]
        n == Len(popped.stack)
    IN  IF via = "dependency"
        THEN [popped EXCEPT !.stack[n].deps = Append(@, inst)]
        ELSE IF via = "reentry" THEN popped
        ELSE [popped EXCEPT !.phase = "returned"]

\* The parameter lists of a constructor: up to MaxDeps classes, each class
\* at most once.
ParamLists == {l \in BSeq(Nodes, MaxDeps) : Cardinality(Range(l)) = Len(l)}

InitResolve ==
    /\ IdleOthers
    /\ IdleRouting
    /\ gx = NoRun /\ pr = NoRun /\ NoCalls
    /\ \E paramTypes \in [Nodes -> ParamLists],
          scope \in [Nodes -> Scopes] :
         rc = [phase |-> "running", paramTypes |-> paramTypes, scope |-> scope,
               stack |-> <<Frame(RequestedToken, "request")>>,
               cache |-> [c \in Nodes |-> NotCached],
               made |-> 0, returned |-> <<>>, stores |-> <<>>,
               reentries |-> 0, again |-> {}, failed |-> "none"]

\* container.ts:63-72  the next paramType is resolved: this.resolve(paramType)
\* returns the cached singleton (45-47) or starts a nested resolution
ResolveDependency ==
    LET n == Len(rc.stack)
        top == rc.stack[n]
    IN  /\ rc.phase = "running"
        /\ top.inst = NotCached
        /\ Len(top.deps) < Len(rc.paramTypes[top.cls])
        /\ LET dep == rc.paramTypes[top.cls][Len(top.deps) + 1]
           IN  IF singletonHit(rc, dep)
               THEN rc' = [rc EXCEPT
                             !.stack[n].deps = Append(@, rc.cache[dep]),
                             !.returned = Append(@, rc.cache[dep])]
               ELSE /\ n < MaxDepth
                    /\ rc' = enter(rc, dep, "dependency")
        /\ UNCHANGED <<qvars, ic, cvars, rvars, gx, pr, yvars>>

\* container.ts:74  new ServiceClass(...dependencies): the constructor starts
Construct ==
    LET n == Len(rc.stack)
        top == rc.stack[n]
    IN  /\ rc.phase = "running"
        /\ top.inst = NotCached
        /\ Len(top.deps) = Len(rc.paramTypes[top.cls])
        /\ rc' = [rc EXCEPT !.made = @ + 1,
                            !.stack[n].inst = Made(top.cls, rc.made + 1)]
        /\ UNCHANGED <<qvars, ic, cvars, rvars, gx, pr, yvars>>

\* container.ts:74  new ServiceClass(...dependencies) throws. resolve has no
\* try/catch, so the exception leaves every call of resolve that is open.
ConstructThrows ==
    LET n == Len(rc.stack)
        top == rc.stack[n]
    IN  /\ rc.phase = "running"
        /\ top.inst = NotCached
        /\ Len(top.deps) = Len(rc.paramTypes[top.cls])
        /\ rc' = [rc EXCEPT !.phase = "threw", !.stack = <<>>,
                            !.failed = top.cls]
        /\ UNCHANGED <<qvars, ic, cvars, rvars, gx, pr, yvars>>

\* The running constructor calls container.resolve for its own class.
Reenter ==
    LET n == Len(rc.stack)
        top == rc.stack[n]
    IN  /\ rc.phase = "running"
        /\ top.inst # NotCached
        /\ rc.reentries < MaxReentries
        /\ n < MaxDepth
        /\ IF singletonHit(rc, top.cls)
           THEN rc' = [rc EXCEPT !.reentries = @ + 1,
                                 !.returned = Append(@, rc.cache[top.cls])]
           ELSE rc' = enter([rc EXCEPT !.reentries = @ + 1],
                            top.cls, "reentry")
        /\ UNCHANGED <<qvars, ic, cvars, rvars, gx, pr, yvars>>

\* container.ts:74-81  the constructor returns, the instance is cached when
\* its scope is singleton, and resolve returns it
Return ==
    LET n == Len(rc.stack)
        top == rc.stack[n]
    IN  /\ rc.phase = "running"
        /\ top.inst # NotCached
        /\ rc' = deliver([storeSingleton(rc, top.cls, top.inst)
                            EXCEPT !.stack = SubSeq(rc.stack, 1, n - 1)],
                         top.via, top.inst)
        /\ UNCHANGED <<qvars, ic, cvars, rvars, gx, pr, yvars>>

NextResolve ==
    ResolveDependency \/ Construct \/ ConstructThrows \/ Reenter \/ Return

SpecResolve == InitResolve /\ [][NextResolve]_vars

\* resolve is synchronous: a call that can go on goes on.
SpecResolveFair == SpecResolve /\ WF_vars(NextResolve)

(***************************************************************************)
(* Properties of Container.resolve call by call                            *)
(***************************************************************************)
\* The classes whose constructor the resolution of cls can come to need.
RECURSIVE DependsOnWithin(_, _, _)
DependsOnWithin(paramTypes, cls, k) ==
    IF k = 0 THEN {}
    ELSE LET direct == Range(paramTypes[cls])
         IN  direct \cup UNION {DependsOnWithin(paramTypes, d, k - 1) :
                                  d \in direct}

DependsOn(paramTypes, cls) ==
    DependsOnWithin(paramTypes, cls, Cardinality(Nodes))

\* cls is on a cycle of constructor dependencies or depends on a class that
\* is.
ReachesCycle(cls) ==
    \E c \in {cls} \cup DependsOn(rc.paramTypes, cls) :
        c \in DependsOn(rc.paramTypes, c)

HasCycle == ReachesCycle(RequestedToken)

\* The requested resolve call has returned or thrown.
Terminated == rc.phase \in {"returned", "threw"}

RecursionAtBound ==
    /\ rc.phase = "running"
    /\ Len(rc.stack) = MaxDepth

\* C29 as stated: Container.resolve terminates iff the constructor
\* dependency graph reachable from the requested token is acyclic: a call on
\* a cyclic graph neither returns nor throws, a call on an acyclic graph
\* does one of the two.
C29_TerminatesIffAcyclic ==
    /\ [](Terminated => ~HasCycle)
    /\ (~HasCycle) => <>Terminated
    /\ HasCycle => <>RecursionAtBound

\* C29, amended: Container.resolve returns an instance only if the graph
\* reachable from the requested token is acyclic, and on an acyclic graph
\* the call returns or throws. On a cyclic graph the cycle is not detected:
\* the recursion goes as deep as it is allowed to, and no class of a cycle
\* is ever constructed or cached; the one way such a call ends is an
\* exception thrown by the constructor of a class that reaches no cycle and
\* is constructed before the cycle is entered.
C29_ReturnsOnlyIfAcyclic ==
    /\ [](rc.phase = "returned" => ~HasCycle)
    /\ (~HasCycle) => <>Terminated
    /\ HasCycle => <>(RecursionAtBound \/ rc.phase = "threw")
    /\ [](rc.phase = "threw" => ~ReachesCycle(rc.failed))
    /\ [](\A c \in Nodes : c \in DependsOn(rc.paramTypes, c)
                             => rc.cache[c] = NotCached)

C29_Witness ==
    /\ HasCycle
    /\ RecursionAtBound
    /\ \E i \in 1..MaxDepth, j \in 1..MaxDepth :
         /\ i < j
         /\ rc.stack[i].cls = rc.stack[j].cls
         /\ rc.scope[rc.stack[i].cls] = "singleton"
         /\ rc.cache[rc.stack[i].cls] = NotCached

StoredFor(cls) ==
    {i \in 1..Len(rc.stores) : rc.stores[i].cls = cls}

LastStored(cls) ==
    rc.stores[CHOOSE i \in StoredFor(cls) : \A k \in StoredFor(cls) : k <= i]

InstancesReturned(cls) ==
    {rc.returned[i] : i \in {k \in 1..Len(rc.returned) :
                               rc.returned[k].cls = cls}}

\* C30: the singleton cache is last-write-wins. When a not yet cached
\* singleton is resolved again before the first resolution has stored its
\* instance, then once the request has returned two distinct instances
\* have been constructed and stored, the cache keeps the one stored last,
\* and the callers hold different instances of the singleton.
C30_LastWriteWins ==
    \A cls \in Nodes :
        /\ StoredFor(cls) # {} => rc.cache[cls] = LastStored(cls)
        /\ (rc.phase = "returned" /\ cls \in rc.again) =>
              /\ Cardinality({rc.stores[i] : i \in StoredFor(cls)}) >= 2
              /\ Cardinality(InstancesReturned(cls)) >= 2

C30_Witness ==
    /\ rc.phase = "returned"
    /\ rc.again # {}
    /\ \E cls \in rc.again :
         \E x \in InstancesReturned(cls) : x # rc.cache[cls]

(***************************************************************************)
(* Further properties of the container                                     *)
(***************************************************************************)
\* C36: a resolve of a registered string token returns an instance of the
\* constructor that is registered under it now: after register(token, C1),
\* resolve(token), register(token, C2), the next resolve(token) returns an
\* instance of C2. The token is one that names no class, so that only its
\* own earlier resolutions can have filled its cache entry.
C36_OverwriteNotShadowed ==
    (/\ lastOp.op = "resolve"
     /\ lastOp.token.kind = "string"
     /\ lastOp.token.name \notin Classes
     /\ services[lastOp.token.name] # NoClass)
    => /\ lastOp.res.kind = "instance"
       /\ lastOp.res.cls = services[lastOp.token.name]

\* C37: resolve of a constructor returns an instance constructed by that
\* constructor, whatever was registered and resolved before.
C37_OwnConstructor ==
    (lastOp.op = "resolve" /\ lastOp.token.kind = "ctor")
    => /\ lastOp.res.kind = "instance"
       /\ lastOp.res.cls = lastOp.token.name

\* C38: a resolve call that fails leaves the container as it was before
\* the call; here the cache was empty before the call, and a constructor
\* among the dependencies threw.
C38_FailedResolveChangesNothing ==
    (rc.phase = "threw" /\ rc.failed # RequestedToken)
    => rc.cache = [c \in Nodes |-> NotCached]

\* When the constructor that throws is the first one to run, nothing has
\* been cached.
FirstConstructorFailureChangesNothing ==
    (rc.phase = "threw" /\ rc.made = 0)
    => rc.cache = [c \in Nodes |-> NotCached]

\* An unregistered string token fails before anything is written.
UnregisteredFailureChangesNothing ==
    [][(lastOp'.op = "resolve" /\ lastOp'.res.kind = "error")
         => (services' = services /\ singletons' = singletons)]_vars

(***************************************************************************)
(* Further properties of ParamResolver.resolveParams                       *)
(***************************************************************************)
\* C35: a parameter with a declared binding whose extracted value is absent
\* is called with that absent value, never with the raw request object; the
\* request is substituted only at positions with no declared binding.
C35_AbsentValueStaysAbsent ==
    pr.phase = "called" =>
        \A k \in 1..Len(pr.slots) :
            /\ pr.slots[k] = "absent" => pr.callArgs[k] = Hole
            /\ (Len(pr.callArgs) = Len(pr.slots) /\ pr.callArgs[k] = RawRequest)
                 => pr.slots[k] = "unbound"

(***************************************************************************)
(* Part 8: the global guard, pipe and interceptor lists                    *)
(* (decorators/interceptor.decorator.ts:63-117 and 413-459,                *)
(* pipes/validation.pipe.ts:223-272).  The three resolvers differ only in  *)
(* the name of the method they look for: canActivate, transform,           *)
(* intercept.                                                              *)
(*                                                                         *)
(* gl.which     the kind of list the behaviour is about                    *)
(* gl.list      the registered list: one factory per accepted value        *)
(* gl.arg       the argument of the last setGlobal... call                 *)
(* gl.threw     whether that call threw                                    *)
(* gl.slots     per factory, during get...: what calling it gave           *)
(* gl.settled   the order in which the awaited factories settled           *)
(* gl.result    what the promise of getGlobal... settled with              *)
(***************************************************************************)
ListKinds == {"guards", "pipes", "interceptors"}

\* The values handed to useGlobalGuards / useGlobalPipes /
\* useGlobalInterceptors:
\*  "classProto"    class G { canActivate() {..} }
\*  "classOrphan"   as classProto, but container.resolve(G) throws
\*  "classField"    class G { canActivate = () => .. }: the method is a
\*                  property of each instance, not of G.prototype
\*  "instance"      new G()
\*  "factory"       () => new G()
\*  "asyncFactory"  async () => new G()
\*  "number"        123
\*  "null"          null
\*  "plainObject"   {}
ValueKinds == {"classProto", "classOrphan", "classField", "instance",
               "factory", "asyncFactory", "number", "null", "plainObject"}

\* typeof value === "function"
IsFunction(v) ==
    v \in {"classProto", "classOrphan", "classField", "factory", "asyncFactory"}

\* value.prototype && typeof value.prototype.<method> === "function"
HasPrototypeMethod(v) == v \in {"classProto", "classOrphan"}

\* value && typeof value.<method> === "function"
HasMethod(v) == v = "instance"

accepts_Anything(v) == TRUE

\* interceptor.decorator.ts:433-456  the three tests of setGlobalGuards, in
\* their order; a value that passes none makes the call throw
accepts(v) == (IsFunction(v) /\ HasPrototypeMethod(v)) \/ IsFunction(v) \/ HasMethod(v)

\* interceptor.decorator.ts:433-455  the factory stored for an accepted value
toFactory(v) ==
    IF IsFunction(v) /\ HasPrototypeMethod(v) THEN [call |-> "resolve", of |-> v]
    ELSE IF IsFunction(v) THEN [call |-> "itself", of |-> v]
    ELSE [call |-> "constant", of |-> v]

Awaited == [st |-> "pending", by |-> "-"]
Got(by) == [st |-> "instance", by |-> by]
Threw(e) == [st |-> "threw", by |-> e]

\* interceptor.decorator.ts:418-421  const result = factory()
callFactory(f) ==
    CASE f.call = "resolve" ->
           \* 440-446  try { container.resolve(guard) } catch { new guard() }
           IF f.of = "classOrphan" THEN Got("new") ELSE Got("container")
      [] f.call = "constant" -> Got("itself")
      [] f.of = "factory" -> Got("factory")
      [] f.of = "asyncFactory" -> Awaited
      \* a class called without `new`
      [] OTHER -> Threw("TypeError")

Valid(arg) == \A k \in 1..Len(arg) : accepts(arg[k])

InitGlobals ==
    /\ IdleOthers
    /\ IdleRouting
    /\ gx = NoRun /\ pr = NoRun /\ rc = NoRun
    /\ mw = NoRun /\ hc = NoRun /\ rq = NoRun /\ app = NoRun
    /\ \E which \in ListKinds :
         gl = [phase |-> "start", which |-> which, list |-> <<>>,
               arg |-> <<>>, threw |-> FALSE, slots |-> <<>>,
               settled |-> <<>>, result |-> <<>>]

\* interceptor.decorator.ts:431-459  setGlobalGuards(guards, container), and
\* likewise setGlobalPipes and setGlobalInterceptors. The calls are made
\* while the application is set up; one that throws ends the setup.
SetGlobal ==
    /\ gl.phase \in {"start", "set"}
    /\ ~gl.threw
    /\ \E arg \in BSeq(ValueKinds, MaxGlobals) :
         gl' = [gl EXCEPT
                  !.phase = "set",
                  !.arg = arg,
                  !.threw = ~Valid(arg),
                  !.list = IF Valid(arg)
                           THEN [k \in 1..Len(arg) |-> toFactory(arg[k])]
                           ELSE @,
                  !.slots = <<>>, !.settled = <<>>, !.result = <<>>]
    /\ UNCHANGED <<qvars, ic, cvars, rvars, xvars, mw, hc, rq, app>>

\* interceptor.decorator.ts:413-421  getGlobalGuards: factories.map calls
\* every factory, in list order, before anything is awaited
GetGlobal ==
    /\ gl.phase = "set"
    /\ ~gl.threw
    /\ gl' = [gl EXCEPT !.phase = "awaiting",
                        !.slots = [k \in 1..Len(gl.list) |->
                                     callFactory(gl.list[k])]]
    /\ UNCHANGED <<qvars, ic, cvars, rvars, xvars, mw, hc, rq, app>>

\* The promise returned by an asynchronous factory is fulfilled.
FactorySettles ==
    /\ gl.phase = "awaiting"
    /\ \E k \in 1..Len(gl.slots) :
         /\ gl.slots[k] = Awaited
         /\ gl' = [gl EXCEPT !.slots[k] = Got("asyncFactory"),
                             !.settled = Append(@, k)]
    /\ UNCHANGED <<qvars, ic, cvars, rvars, xvars, mw, hc, rq, app>>

\* interceptor.decorator.ts:416-423  Promise.all rejects as soon as one of
\* its promises is rejected and is fulfilled, with the values in the order
\* of the factories, once all of them are fulfilled
GetGlobalSettles ==
    /\ gl.phase = "awaiting"
    /\ \/ /\ \E k \in 1..Len(gl.slots) : gl.slots[k].st = "threw"
          /\ gl' = [gl EXCEPT !.phase = "returned",
                              !.result = <<Threw("TypeError")>>]
       \/ /\ \A k \in 1..Len(gl.slots) : gl.slots[k].st = "instance"
          /\ gl' = [gl EXCEPT !.phase = "returned", !.result = gl.slots]
    /\ UNCHANGED <<qvars, ic, cvars, rvars, xvars, mw, hc, rq, app>>

NextGlobals == SetGlobal \/ GetGlobal \/ FactorySettles \/ GetGlobalSettles

SpecGlobals == InitGlobals /\ [][NextGlobals]_vars

(***************************************************************************)
(* Properties of the global lists                                          *)
(***************************************************************************)
\* A class, an instance or a factory.
Registrable(v) ==
    v \in {"classProto", "classOrphan", "classField", "instance",
           "factory", "asyncFactory"}

Expected(v) ==
    CASE v \in {"classProto", "classField"} -> Got("container")
      [] v = "classOrphan" -> Got("new")
      [] v = "instance" -> Got("itself")
      [] OTHER -> Got(v)

\* C33: getGlobalGuards / getGlobalPipes / getGlobalInterceptors return one
\* instance per registered value, in registration order: from the container
\* for a class (by direct instantiation when the container fails), the
\* instance itself, or the result of the factory, whatever the order in
\* which asynchronous factories settle.
C33_InstancesInOrder ==
    gl.phase = "returned" =>
        /\ Len(gl.result) = Len(gl.list)
        /\ \A k \in 1..Len(gl.list) : gl.result[k] = Expected(gl.list[k].of)

\* The same for lists without a class whose method is an instance field.
InstancesInOrderForPrototypeClasses ==
    (/\ gl.phase = "returned"
     /\ \A k \in 1..Len(gl.list) : gl.list[k].of # "classField")
    => /\ Len(gl.result) = Len(gl.list)
       /\ \A k \in 1..Len(gl.list) : gl.result[k] = Expected(gl.list[k].of)

(***************************************************************************)
(* Part 9: one run of the function returned by                             *)
(* MiddlewareExecutor.createExecutionChain                                 *)
(* (middleware/middleware.interface.ts:112-148)                            *)
(*                                                                         *)
(* mw.middlewares   what each middleware of the list does in use()         *)
(* mw.finalHandler  what the final handler does                            *)
(* mw.index         `index` of the closure                                 *)
(* mw.events        use / next / nextError / threw / final, in order       *)
(* mw.result        how the promise of the chain settled                   *)
(***************************************************************************)
\* What use(req, res, next) does:
\*  "next"            calls next()
\*  "nextError"       calls next(err) with an error
\*  "throws"          throws before it calls next
\*  "nextThenThrows"  calls next() and throws afterwards
\*  "never"           returns without calling next, and never calls it
\*  "asyncThrows"     is an async function that throws: use returns a
\*                    rejected promise and next is never called
\*  "hole"            the list entry is undefined
MiddlewareKinds == {"next", "nextError", "throws", "nextThenThrows",
                    "never", "asyncThrows", "hole"}

FinalHandlerKinds == {"responds", "throws"}

MwEvent(ev, idx) == [ev |-> ev, idx |-> idx]

ChainPending == [st |-> "pending", v |-> "-", idx |-> 0]
ChainRejected(e, k) == [st |-> "rejected", v |-> e, idx |-> k]
ChainFulfilled == [st |-> "fulfilled", v |-> "response", idx |-> 0]

\* middleware.interface.ts:127-140  what happens inside the Promise executor
useEvents(kind, k) ==
    CASE kind = "next" -> <<MwEvent("use", k), MwEvent("next", k)>>
      [] kind = "nextError" -> <<MwEvent("use", k), MwEvent("nextError", k)>>
      [] kind = "throws" -> <<MwEvent("use", k), MwEvent("threw", k)>>
      [] kind = "nextThenThrows" ->
           <<MwEvent("use", k), MwEvent("next", k), MwEvent("threw", k)>>
      [] kind = "asyncThrows" -> <<MwEvent("use", k), MwEvent("threw", k)>>
      [] OTHER -> <<MwEvent("use", k)>>

\* middleware.interface.ts:127-140  how the awaited promise settles: the
\* first of resolve() and reject(err) to be called decides, a later call
\* has no effect, and an exception is caught only while use() is running
usePromise(kind, k) ==
    CASE kind \in {"next", "nextThenThrows"} -> ChainFulfilled
      [] kind = "nextError" -> ChainRejected("nextError", k)
      [] kind = "throws" -> ChainRejected("thrown", k)
      [] OTHER -> ChainPending

InitMiddleware ==
    /\ IdleOthers
    /\ IdleRouting
    /\ gx = NoRun /\ pr = NoRun /\ rc = NoRun
    /\ gl = NoRun /\ hc = NoRun /\ rq = NoRun /\ app = NoRun
    /\ \E l \in BSeq(MiddlewareKinds, MaxMiddlewares), h \in FinalHandlerKinds :
         mw = [phase |-> "created", middlewares |-> l, finalHandler |-> h,
               index |-> 0, events |-> <<>>, result |-> ChainPending]

\* middleware.interface.ts:117-118  the chain is called: let index = 0
CallChain ==
    /\ mw.phase = "created"
    /\ mw' = [mw EXCEPT !.phase = "loop"]
    /\ UNCHANGED <<qvars, ic, cvars, rvars, xvars, gl, hc, rq, app>>

\* middleware.interface.ts:121-140  one iteration of the while loop, up to
\* the point where the awaited promise has settled or is left pending; a
\* rejection leaves executeNext and the chain through the catch at 146-147
UseMiddleware ==
    /\ mw.phase = "loop"
    /\ mw.index < Len(mw.middlewares)
    /\ LET k == mw.index + 1
           kind == mw.middlewares[k]
           p == usePromise(kind, k)
       IN  IF kind = "hole"
           THEN mw' = [mw EXCEPT !.index = k]
           ELSE mw' = [mw EXCEPT
                         !.index = k,
                         !.events = @ \o useEvents(kind, k),
                         !.phase = CASE p.st = "fulfilled" -> "loop"
                                     [] p.st = "rejected" -> "settled"
                                     [] OTHER -> "waiting",
                         !.result = IF p.st = "rejected" THEN p ELSE @]
    /\ UNCHANGED <<qvars, ic, cvars, rvars, xvars, gl, hc, rq, app>>

\* middleware.interface.ts:143-148  return await finalHandler(req, res)
RunFinalHandler ==
    /\ mw.phase = "loop"
    /\ mw.index = Len(mw.middlewares)
    /\ mw' = [mw EXCEPT
                !.phase = "settled",
                !.events = Append(@, MwEvent("final", 0)),
                !.result = IF mw.finalHandler = "responds"
                           THEN ChainFulfilled
                           ELSE ChainRejected("handlerError", 0)]
    /\ UNCHANGED <<qvars, ic, cvars, rvars, xvars, gl, hc, rq, app>>

NextMiddleware == CallChain \/ UseMiddleware \/ RunFinalHandler

SpecMiddleware == InitMiddleware /\ [][NextMiddleware]_vars

(***************************************************************************)
(* Properties of the middleware chain                                      *)
(***************************************************************************)
Happened(ev, k) == \E i \in 1..Len(mw.events) : mw.events[i] = MwEvent(ev, k)

At(ev, k) == CHOOSE i \in 1..Len(mw.events) : mw.events[i] = MwEvent(ev, k)

Count(ev, k) ==
    Cardinality({i \in 1..Len(mw.events) : mw.events[i] = MwEvent(ev, k)})

Failed(k) == Happened("threw", k) \/ Happened("nextError", k)

IsMiddleware(k) == k \in 1..Len(mw.middlewares) /\ mw.middlewares[k] # "hole"

\* The middlewares run one at a time in list order, each started only after
\* the one before it has called next().
RunInListOrder ==
    \A j \in 1..Len(mw.middlewares) :
        Happened("use", j) =>
            /\ Count("use", j) = 1
            /\ \A i \in 1..(j - 1) :
                 IsMiddleware(i) => /\ Happened("next", i)
                                    /\ At("next", i) < At("use", j)

\* The final handler runs at most once, and only after every middleware
\* has called next().
FinalHandlerLast ==
    /\ Count("final", 0) <= 1
    /\ Happened("final", 0) =>
         \A i \in 1..Len(mw.middlewares) :
             IsMiddleware(i) => /\ Happened("next", i)
                                /\ At("next", i) < At("final", 0)
    /\ (mw.phase = "settled" /\ \A i \in 1..Len(mw.middlewares) :
                                   IsMiddleware(i) => ~Failed(i))
         => Count("final", 0) = 1

\* After a middleware has thrown or has called next(err), no later
\* middleware and not the final handler run, and the chain rejects with
\* that error.
FailureStopsChain ==
    \A k \in 1..Len(mw.middlewares) :
        Failed(k) =>
            /\ \A j \in (k + 1)..Len(mw.middlewares) : ~Happened("use", j)
            /\ ~Happened("final", 0)
            /\ mw.result.st = "rejected" /\ mw.result.idx = k

\* A middleware that never calls next keeps the final handler from running.
SilenceStopsChain ==
    \A k \in 1..Len(mw.middlewares) :
        (Happened("use", k) /\ ~Happened("next", k)) => ~Happened("final", 0)

\* C40: the chain runs the middlewares one at a time in list order, each
\* only after the one before has called next() without an error; it runs
\* the final handler exactly once and only after every middleware has
\* called next(); when a middleware throws or calls next(err), nothing
\* later runs and the chain rejects with that error; when a middleware
\* never calls next, the final handler never runs.
C40_MiddlewareChain ==
    /\ RunInListOrder
    /\ FinalHandlerLast
    /\ FailureStopsChain
    /\ SilenceStopsChain

\* The same for middlewares that throw, if they do, synchronously and
\* before they have called next().
ChainForEarlyFailures ==
    (\A k \in 1..Len(mw.middlewares) :
        mw.middlewares[k] \notin {"nextThenThrows", "asyncThrows"})
    => C40_MiddlewareChain

(***************************************************************************)
(* Part 10: the calls of handle() in one run of                            *)
(* InterceptorExecutor.execute (examples/wildcard-routes-example.ts:       *)
(* 239-256 and 296-320)                                                    *)
(*                                                                         *)
(* hc.calls     per interceptor, how often intercept() calls next.handle() *)
(* hc.handler   behaviour of the original handler                          *)
(* hc.stack     the intercept() calls that are running, outermost first,   *)
(*              each with the handle() calls it has still to make          *)
(* hc.invoked   how often the original handler has been invoked            *)
(* hc.result    what execute returns, for an empty interceptor list        *)
(***************************************************************************)
HandleFrame(j, left) == [j |-> j, left |-> left]

invokeHandler_Twice(n) == n + 2

\* wildcard-routes-example.ts:242-244  handle() { .. this.handler() .. }:
\* every call of handle() on the innermost CallHandlerImpl calls the handler
invokeHandler(n) == n + 1

InitHandle ==
    /\ IdleOthers
    /\ IdleRouting
    /\ gx = NoRun /\ pr = NoRun /\ rc = NoRun
    /\ gl = NoRun /\ mw = NoRun /\ rq = NoRun /\ app = NoRun
    /\ \E calls \in BSeq(0..MaxHandleCalls, MaxInterceptors), h \in HandlerKinds :
         hc = [phase |-> "start", calls |-> calls, handler |-> h,
               stack |-> <<>>, invoked |-> 0, result |-> NotCreated]

\* wildcard-routes-example.ts:301-303  return await handler()
ExecuteDirectly ==
    /\ hc.phase = "start"
    /\ Len(hc.calls) = 0
    /\ hc' = [hc EXCEPT !.phase = "done",
                        !.invoked = invokeHandler(@),
                        !.result = HandlerOutcome(hc.handler)]
    /\ UNCHANGED <<qvars, ic, cvars, rvars, xvars, gl, mw, rq, app>>

\* wildcard-routes-example.ts:305-319  the chain is built and
\* currentHandler.handle() calls the wrapper of the first interceptor, which
\* calls its intercept()
ExecuteChain ==
    /\ hc.phase = "start"
    /\ Len(hc.calls) > 0
    /\ hc' = [hc EXCEPT !.phase = "running",
                        !.stack = <<HandleFrame(1, hc.calls[1])>>]
    /\ UNCHANGED <<qvars, ic, cvars, rvars, xvars, gl, mw, rq, app>>

\* wildcard-routes-example.ts:242-247 + 313-316  the interceptor that is
\* running calls next.handle(): the handler when it is the last interceptor,
\* the wrapper of the next interceptor and its intercept() otherwise
CallHandle ==
    LET n == Len(hc.stack)
        top == hc.stack[n]
    IN  /\ hc.phase = "running"
        /\ top.left > 0
        /\ IF top.j = Len(hc.calls)
           THEN hc' = [hc EXCEPT !.stack[n].left = @ - 1,
                                 !.invoked = invokeHandler(@)]
           ELSE hc' = [hc EXCEPT
                         !.stack = Append([@ EXCEPT ![n].left = @ - 1],
                                          HandleFrame(top.j + 1,
                                                      hc.calls[top.j + 1]))]
        /\ UNCHANGED <<qvars, ic, cvars, rvars, xvars, gl, mw, rq, app>>

\* The interceptor that is running makes no further call of next.handle().
InterceptReturns ==
    LET n == Len(hc.stack)
    IN  /\ hc.phase = "running"
        /\ hc.stack[n].left = 0
        /\ hc' = [hc EXCEPT !.stack = SubSeq(@, 1, n - 1),
                            !.phase = IF n = 1 THEN "done" ELSE @]
        /\ UNCHANGED <<qvars, ic, cvars, rvars, xvars, gl, mw, rq, app>>

NextHandle == ExecuteDirectly \/ ExecuteChain \/ CallHandle \/ InterceptReturns

SpecHandle == InitHandle /\ [][NextHandle]_vars

(***************************************************************************)
(* Properties of the calls of handle()                                     *)
(***************************************************************************)
RECURSIVE HandleCallsReachingHandler(_, _)
HandleCallsReachingHandler(calls, j) ==
    IF j > Len(calls) THEN 1
    ELSE calls[j] * HandleCallsReachingHandler(calls, j + 1)

DirectResultUnchanged ==
    (hc.phase = "done" /\ Len(hc.calls) = 0)
    => /\ hc.invoked = 1
       /\ hc.result = HandlerOutcome(hc.handler)

\* C39 as stated: the handler is invoked at most once in one run of
\* execute, whatever the interceptors do with the inner handle, and with an
\* empty interceptor list exactly once, its outcome being returned
\* unchanged.
C39_InvokedAtMostOnce ==
    /\ hc.invoked <= 1
    /\ DirectResultUnchanged

\* C39, amended: the handler is invoked once for every call of handle()
\* that reaches the innermost handle, hence at most once when no
\* interceptor calls its inner handle more than once; with an empty
\* interceptor list it is invoked exactly once and its outcome is returned
\* unchanged.
C39_InvokedOncePerHandle ==
    /\ (\A j \in 1..Len(hc.calls) : hc.calls[j] <= 1) => hc.invoked <= 1
    /\ hc.invoked <= HandleCallsReachingHandler(hc.calls, 1)
    /\ hc.phase = "done" =>
         hc.invoked = HandleCallsReachingHandler(hc.calls, 1)
    /\ DirectResultUnchanged

C39_Witness ==
    /\ hc.phase = "done"
    /\ Len(hc.calls) = MaxInterceptors
    /\ \A j \in 1..Len(hc.calls) : hc.calls[j] = 1
    /\ hc.invoked = 1

(***************************************************************************)
(* Part 11: several requests in flight in the fetch callback               *)
(* (application/application.ts:421-498 and the handler closure, 223-334).  *)
(* Every call of the callback is its own async function; it waits at       *)
(* `await GuardExecutor.canActivate`, `await ParamResolver.resolveParams`  *)
(* (pipes) and `await route.handler(..)`.                                  *)
(*                                                                         *)
(* rq.awaits   per request and stage, whether the awaited promise settles  *)
(* rq.at       per request, where its async function is                    *)
(***************************************************************************)
Requests == 1..MaxRequests

Stages == <<"guard", "pipe", "handler">>

StageNames == {Stages[i] : i \in 1..Len(Stages)}

\* The promise a stage awaits is settled at some time (fulfilled or
\* rejected: either way the closure goes on to a response), or never.
Settling == {"settles", "never"}

\* application.ts:238-309  the position after the stage the request is at
AfterStage(at) ==
    CASE at = "guard" -> "pipe"
      [] at = "pipe" -> "handler"
      [] OTHER -> "shaped"

canContinue_WhenNoneStuck(q, r) ==
    /\ q.at[r] \in StageNames
    /\ q.awaits[r][q.at[r]] = "settles"
    /\ \A o \in Requests :
         q.at[o] \in StageNames => q.awaits[o][q.at[o]] = "settles"

\* application.ts:238, 276, 283  `await`: the async function of request r
\* goes on when the promise it awaits has settled, whatever the others do
canContinue(q, r) ==
    /\ q.at[r] \in StageNames
    /\ q.awaits[r][q.at[r]] = "settles"

InitRequests ==
    /\ IdleOthers
    /\ IdleRouting
    /\ gx = NoRun /\ pr = NoRun /\ rc = NoRun
    /\ gl = NoRun /\ mw = NoRun /\ hc = NoRun /\ app = NoRun
    /\ \E awaits \in [Requests -> [StageNames -> Settling]] :
         rq = [phase |-> "listening", awaits |-> awaits,
               at |-> [r \in Requests |-> "none"]]

\* application.ts:421, 481-484  the fetch callback is called for request r,
\* finds the route and calls its handler closure, which runs to its first
\* await
Arrive(r) ==
    /\ rq.at[r] = "none"
    /\ rq' = [rq EXCEPT !.at[r] = "guard"]
    /\ UNCHANGED <<qvars, ic, cvars, rvars, xvars, gl, mw, hc, app>>

\* application.ts:238-287  the promise request r awaits has settled and its
\* closure runs to the next await
StageSettles(r) ==
    /\ canContinue(rq, r)
    /\ rq' = [rq EXCEPT !.at[r] = AfterStage(@)]
    /\ UNCHANGED <<qvars, ic, cvars, rvars, xvars, gl, mw, hc, app>>

\* application.ts:289-333 + 484-494  the closure returns its response and
\* the fetch callback returns it to the server
ReturnResponse(r) ==
    /\ rq.at[r] = "shaped"
    /\ rq' = [rq EXCEPT !.at[r] = "responded"]
    /\ UNCHANGED <<qvars, ic, cvars, rvars, xvars, gl, mw, hc, app>>

NextRequests ==
    \/ \E r \in Requests : Arrive(r)
    \/ \E r \in Requests : StageSettles(r)
    \/ \E r \in Requests : ReturnResponse(r)

SpecRequests == InitRequests /\ [][NextRequests]_vars

\* The event loop runs every continuation whose promise has settled.
SpecRequestsFair ==
    /\ SpecRequests
    /\ \A r \in Requests : WF_vars(StageSettles(r) \/ ReturnResponse(r))

(***************************************************************************)
(* Properties of requests in flight                                        *)
(***************************************************************************)
OwnStagesSettle(r) == \A s \in StageNames : rq.awaits[r][s] = "settles"

Stuck(r) ==
    /\ rq.at[r] \in StageNames
    /\ rq.awaits[r][rq.at[r]] = "never"

\* C31: a request whose guard, pipe or handler never completes stalls only
\* itself: every request in flight whose own stages complete eventually gets
\* its response, whatever the other requests do and in any interleaving.
C31_StallsOnlyItself ==
    \A r \in Requests :
        [](((rq.at[r] # "none") /\ OwnStagesSettle(r))
             => <>(rq.at[r] = "responded"))

C31_Witness ==
    /\ Stuck(1)
    /\ rq.at[2] = "responded"

(***************************************************************************)
(* Part 12: what the operations of one Application write                   *)
(* (application/application.ts:106-128, 134-194, 213-340, 421-498;         *)
(* container/container.ts:26-28, 77-79, 87-90)                             *)
(*                                                                         *)
(* app.routes      Application.routes: one entry per loaded route          *)
(* app.services    Container.services: the registered providers            *)
(* app.singletons  Container.singletons: the classes with a cached         *)
(*                 instance                                                *)
(* app.globals     the global guard, pipe and filter lists                 *)
(* app.handled     number of requests handled                              *)
(***************************************************************************)
ControllerClasses == {"UsersController", "PostsController"}

ProviderClasses == {"UsersService", "PostsService"}

GlobalKinds == {"guards", "pipes", "filters"}

\* The class put on the global list of each kind, and the class a route
\* declares with @UseGuards / @UsePipes / @UseFilters.
GlobalClass(kind) ==
    CASE kind = "guards" -> "AuthGuard"
      [] kind = "pipes" -> "ValidationPipe"
      [] OTHER -> "HttpFilter"

LocalClass(kind) ==
    CASE kind = "guards" -> "RolesGuard"
      [] kind = "pipes" -> "ParsePipe"
      [] OTHER -> "RouteFilter"

\* How far the handler closure gets: no route matches; a guard denies; the
\* handler answers; something throws and the filters are asked.
RequestOutcomes == {"notFound", "denied", "answered", "failed"}

\* The kinds of list the closure resolves on the way to an outcome
\* (application.ts:225-234, 276-281, 312-322)
ResolvedKinds(outcome) ==
    CASE outcome = "notFound" -> {}
      [] outcome = "denied" -> {"guards"}
      [] outcome = "answered" -> {"guards", "pipes"}
      [] OTHER -> {"guards", "pipes", "filters"}

\* The classes container.resolve is called for while the closure resolves
\* the lists of these kinds: the local ones and those on the global lists
ResolvedClasses(a, kinds) ==
    {LocalClass(k) : k \in kinds}
        \cup UNION {Range(a.globals[k]) : k \in kinds}

requestEffects_Registers(a, outcome) ==
    [a EXCEPT !.handled = @ + 1,
              !.services = IF outcome = "notFound" THEN @
                           ELSE @ \cup {"RolesGuard"},
              !.singletons = @ \cup ResolvedClasses(a, ResolvedKinds(outcome))]

\* application.ts:421-498 with 213-340  what one request writes: resolving
\* guards, pipes and filters caches their instances (container.ts:77-79)
requestEffects(a, outcome) ==
    [a EXCEPT !.handled = @ + 1,
              !.singletons = @ \cup ResolvedClasses(a, ResolvedKinds(outcome))]

InitApp ==
    /\ IdleOthers
    /\ IdleRouting
    /\ gx = NoRun /\ pr = NoRun /\ rc = NoRun
    /\ gl = NoRun /\ mw = NoRun /\ hc = NoRun /\ rq = NoRun
    /\ app = [phase |-> "created", routes |-> <<>>, services |-> {},
              singletons |-> {},
              globals |-> [k \in GlobalKinds |-> <<>>],
              handled |-> 0]

\* application.ts:150-152  this.container.register(provider.name, provider)
RegisterProvider ==
    /\ \E p \in ProviderClasses :
         app' = [app EXCEPT !.services = @ \cup {p}]
    /\ UNCHANGED <<qvars, ic, cvars, rvars, xvars, gl, mw, hc, rq>>

\* application.ts:164-194  loadController: the controller is resolved and a
\* route entry is pushed for its route
LoadController ==
    /\ Len(app.routes) < MaxRoutes
    /\ \E c \in ControllerClasses :
         app' = [app EXCEPT !.routes = Append(@, c),
                            !.singletons = @ \cup {c}]
    /\ UNCHANGED <<qvars, ic, cvars, rvars, xvars, gl, mw, hc, rq>>

\* application.ts:106-128  useGlobalGuards / useGlobalFilters /
\* useGlobalPipes: the list of that kind is replaced
UseGlobal ==
    /\ \E k \in GlobalKinds :
         \E l \in {<<>>, <<GlobalClass(k)>>} :
             app' = [app EXCEPT !.globals[k] = l]
    /\ UNCHANGED <<qvars, ic, cvars, rvars, xvars, gl, mw, hc, rq>>

\* application.ts:421-498  one request, from the call of the fetch callback
\* to its response
HandleRequest ==
    /\ app.handled < MaxHandled
    /\ \E outcome \in RequestOutcomes :
         /\ (outcome # "notFound") => Len(app.routes) > 0
         /\ app' = requestEffects(app, outcome)
    /\ UNCHANGED <<qvars, ic, cvars, rvars, xvars, gl, mw, hc, rq>>

\* container.ts:87-90  Container.clear
ClearContainer ==
    /\ app' = [app EXCEPT !.services = {}, !.singletons = {}]
    /\ UNCHANGED <<qvars, ic, cvars, rvars, xvars, gl, mw, hc, rq>>

NextApp ==
    \/ RegisterProvider
    \/ LoadController
    \/ UseGlobal
    \/ HandleRequest
    \/ ClearContainer

SpecApp == InitApp /\ [][NextApp]_vars

(***************************************************************************)
(* Properties of what a request writes                                     *)
(***************************************************************************)
\* C34: handling a request, whatever its outcome, leaves the route table,
\* the registrations of the container and the global guard, pipe and filter
\* lists as they were; these change only while the application is set up or
\* on clear().
C34_RequestsLeaveTablesAlone ==
    [][app'.handled # app.handled =>
         /\ app'.routes = app.routes
         /\ app'.services = app.services
         /\ app'.globals = app.globals]_vars

C34_Witness ==
    /\ app.handled > 0
    /\ Len(app.routes) > 0
    /\ app.services # {}
    /\ app.globals["guards"] # <<>>
    /\ "AuthGuard" \in app.singletons

====
